---- MODULE Spec2Model ----
(***************************************************************************)
(* Orbitport SDK: the random-value resolution pipeline.                    *)
(*                                                                         *)
(*   CTRNGService.random          src/src/services/ctrng.ts                *)
(*   BeaconService.getBeacon, getBeaconWithBlockTraversal                  *)
(*                                src/unnamed/part_000 (services/beacon)   *)
(*   withRetry, isRetryableError  src/src/utils/retry.ts, errors.ts        *)
(*   sanitizeCTRNGRequest         src/src/utils/validation.ts              *)
(*                                                                         *)
(* One call is followed from its entry to its settlement.  An action is    *)
(* the code that runs between two suspension points (an awaited token, an  *)
(* awaited fetch round, an awaited backoff timer); what the network        *)
(* answers is chosen by the action that resumes the call.                  *)
(***************************************************************************)
EXTENDS Integers, Sequences, FiniteSets, TLC

(***************************************************************************)
(* Bounds of the model.                                                    *)
(***************************************************************************)
MaxSeq == 3        \* beacon sequences are 0..MaxSeq
MaxIndex == 3      \* requested indices are 0..MaxIndex (SpecSelect)
MaxLen == 2        \* ctrng arrays hold 0..MaxLen values
MaxRetries == 2    \* options.retries is absent or 0..MaxRetries

(***************************************************************************)
(* JavaScript values.  A value carries its type, so that `x || y`,         *)
(* `x ?? y`, `!x` and `typeof x` are computed as the code computes them.   *)
(***************************************************************************)
Undefined == [type |-> "undefined"]
Null == [type |-> "null"]
Num(n) == [type |-> "number", n |-> n]
Str(s) == [type |-> "string", s |-> s]
\* The number n + 1/2: a number that is not an integer.
Half(n) == [type |-> "number", n |-> n, half |-> TRUE]
\* Number.isInteger
isInteger(v) == v.type = "number" /\ "half" \notin DOMAIN v
\* A path string, kept as its prefix followed by the rest, so that
\* startsWith can be computed; Path(<<>>) is the empty string.
Path(segs) == [type |-> "string", segs |-> segs]

Truthy(v) ==
  CASE v.type = "undefined" -> FALSE
    [] v.type = "null" -> FALSE
    [] v.type = "number" -> v.n # 0
    [] v.type = "string" -> IF "segs" \in DOMAIN v THEN v.segs # <<>> ELSE v.s # ""
    [] OTHER -> TRUE

\* a || b
Or(a, b) == IF Truthy(a) THEN a ELSE b
\* a ?? b
Coalesce(a, b) == IF a.type \in {"undefined", "null"} THEN b ELSE a

startsWith(p, prefix) == Len(p.segs) >= 1 /\ p.segs[1] = prefix

\* Number.prototype.toString for an integer: its decimal digits.
Digit(d) == <<"0", "1", "2", "3", "4", "5", "6", "7", "8", "9">>[d + 1]
RECURSIVE Digits(_)
Digits(n) == IF n < 10 THEN <<Digit(n)>> ELSE Digits(n \div 10) \o <<Digit(n % 10)>>
toString(n) == IF n < 0 THEN <<"-">> \o Digits(0 - n) ELSE Digits(n)

(***************************************************************************)
(* Errors (src/src/utils/errors.ts).                                       *)
(***************************************************************************)
ERROR_CODES ==
  { "AUTH_FAILED", "INVALID_CREDENTIALS", "TOKEN_EXPIRED", "TOKEN_REFRESH_FAILED",
    "INVALID_CONFIG", "MISSING_CLIENT_ID", "MISSING_CLIENT_SECRET",
    "NETWORK_ERROR", "TIMEOUT", "CONNECTION_FAILED",
    "API_ERROR", "RATE_LIMITED", "SERVICE_UNAVAILABLE", "INVALID_RESPONSE",
    "STORAGE_ERROR", "STORAGE_UNAVAILABLE",
    "VALIDATION_ERROR", "INVALID_PARAMETERS",
    "CTRNG_ERROR", "PROVIDER_UNAVAILABLE", "FALLBACK_FAILED",
    "UNKNOWN_ERROR" }

\* The value of the expression ERROR_CODES.<key>: every key of the object
\* maps to its own name, and a key the object does not have reads as undefined.
ErrorCode(key) == IF key \in ERROR_CODES THEN key ELSE "undefined"

OrbitportSDKError(message, code) == [name |-> "OrbitportSDKError", message |-> message, code |-> code]

createValidationError(message) == OrbitportSDKError(message, ErrorCode("VALIDATION_ERROR"))

isRetryableError(error) ==
  error.code \in { ErrorCode("NETWORK_ERROR"), ErrorCode("TIMEOUT"),
                   ErrorCode("CONNECTION_FAILED"), ErrorCode("SERVICE_UNAVAILABLE"),
                   ErrorCode("RATE_LIMITED"), ErrorCode("PROVIDER_UNAVAILABLE") }

\* The settlement of an awaited call.
Resolved(v) == [status |-> "resolved", value |-> v]
Rejected(e) == [status |-> "rejected", error |-> e]
Pending == [status |-> "pending"]

(***************************************************************************)
(* Beacon bodies and records (BeaconService, src/unnamed/part_000).        *)
(***************************************************************************)
IpnsPrefix == "/ipns/"
IpfsPrefix == "/ipfs/"

isValidPath(path) == startsWith(path, IpnsPrefix) \/ startsWith(path, IpfsPrefix)

\* new Date(ms).toISOString(): the instant, as text.
toISOString(ms) == [type |-> "string", iso |-> ms]
\* String(v) of a value that is not a small number.
String(v) == [type |-> "string", of |-> v]

\* parseBeacon: the text is a body; NotJson is a text JSON.parse rejects.
\* A JSON object is a record with json |-> "object" and the keys it holds,
\* previous and data among them; data is a value, or an object with the
\* keys it holds, sequence, timestamp and ctrng among them.  JsonScalar is
\* the text of a JSON value that is no object: a number, a string, null.
NotJson == [json |-> "invalid"]
JsonScalar == [json |-> "scalar"]
\* The empty text, which is falsy and which JSON.parse does not accept.
EmptyText == [json |-> "empty"]
JsonBody(previous, data) == [json |-> "object", previous |-> previous, data |-> data]
Arr(items) == [type |-> "array", items |-> items]

\* obj[key]
Prop(obj, key) == IF key \in DOMAIN obj THEN obj[key] ELSE Undefined

\* v && typeof v === "object": an object of the model has no type, an array
\* has the type "array".
isObject(v) == "type" \notin DOMAIN v \/ v.type = "array"

parseBeacon(jsonText) ==
  IF jsonText.json = "invalid"
    THEN Rejected([name |-> "SyntaxError", message |-> "Unexpected token"])
  ELSE IF jsonText.json = "empty"
    THEN Rejected([name |-> "SyntaxError", message |-> "Unexpected end of JSON input"])
  ELSE IF jsonText.json # "object" \/ ~isObject(Prop(jsonText, "data"))
    THEN Rejected([name |-> "Error", message |-> "Unexpected beacon JSON structure"])
  ELSE LET timestamp == Prop(jsonText.data, "timestamp")
           ctrng == Prop(jsonText.data, "ctrng")
           iso == IF timestamp.type = "number" /\ timestamp.n \div 1000000 < 1000000
                    THEN toISOString(timestamp.n * 1000)
                    ELSE String(timestamp)
       IN Resolved([ previous |-> Prop(jsonText, "previous"),
                     sequence |-> Prop(jsonText.data, "sequence"),
                     timestamp |-> iso,
                     ctrng |-> IF ctrng.type = "array" THEN ctrng.items ELSE <<>> ])

\* A variant that compares the sequences alone.
compareBeaconDataBySequence(gateway, api) ==
  LET both == gateway # Null /\ api # Null
      match == both /\ gateway.sequence = api.sequence
  IN [ gateway |-> gateway, api |-> api, match |-> match,
       differences |-> IF both /\ ~match
                         THEN [ type |-> "object",
                                sequence |-> [gateway |-> gateway.sequence, api |-> api.sequence],
                                previous |-> Undefined ]
                         ELSE Undefined ]

\* compareBeaconData(gateway, api); either may be Null.
compareBeaconData(gateway, api) ==
  LET both == gateway # Null /\ api # Null
      match == both /\ gateway.sequence = api.sequence /\ gateway.previous = api.previous
      differences ==
        IF both /\ ~match
          THEN [ type |-> "object",
                 sequence |-> IF gateway.sequence # api.sequence
                                THEN [gateway |-> gateway.sequence, api |-> api.sequence]
                                ELSE Undefined,
                 previous |-> IF gateway.previous # api.previous
                                THEN [ gateway |-> Or(gateway.previous, Path(<<>>)),
                                       api |-> Or(api.previous, Path(<<>>)) ]
                                ELSE Undefined ]
          ELSE Undefined
  IN [gateway |-> gateway, api |-> api, match |-> match, differences |-> differences]

\* The source label of a transport result, `gateway:<url>` or `api:<url>`,
\* kept as the set of the words it contains, which is what
\* String.prototype.includes is asked about.
GatewayLabel(gatewayUrl) == {"gateway"} \cup gatewayUrl
ApiLabel(apiUrl) == {"api"} \cup apiUrl
includes(label, word) == word \in label

\* readViaGateway / readViaApi: the transport's answer `resp` is either
\* [error |-> message] or [text |-> body]; the result carries the label.
readViaGateway(gatewayUrl, resp) == [source |-> GatewayLabel(gatewayUrl)] @@ resp
readViaApi(apiUrl, resp) == [source |-> ApiLabel(apiUrl)] @@ resp

\* readFromSources: the gateway task is pushed before the api task, and
\* Promise.all keeps that order.
readFromSources(ipfs, sources, net) ==
  (IF "gateway" \in sources THEN <<readViaGateway(ipfs.gateway, net.gateway)>> ELSE <<>>)
  \o (IF "api" \in sources THEN <<readViaApi(ipfs.apiUrl, net.api)>> ELSE <<>>)

sourceList(sources) == IF "both" \in sources THEN {"gateway", "api"} ELSE sources

RECURSIVE parseSources(_)
\* The loop over sources_data that fills parsedData.
parseSources(sources_data) ==
  IF sources_data = <<>> THEN <<>>
  ELSE LET source == Head(sources_data)
           rest == parseSources(Tail(sources_data))
       IN IF /\ "text" \in DOMAIN source /\ source.text # EmptyText
             /\ parseBeacon(source.text).status = "resolved"
            THEN <<[source |-> source.source, data |-> parseBeacon(source.text).value]>> \o rest
            ELSE rest

RECURSIVE find(_, _)
\* parsedData.find((p) => p.source.includes(word))?.data || null
find(parsedData, word) ==
  IF parsedData = <<>> THEN Null
  ELSE IF includes(Head(parsedData).source, word) THEN Head(parsedData).data
  ELSE find(Tail(parsedData), word)

\* sources_data.filter((s) => s.error)
failed(sources_data) == SelectSeq(sources_data, LAMBDA s : "error" \in DOMAIN s /\ s.error # "")

\* A variant in which the error of any one source fails the round.
getBeaconAttemptAnyError(ipfs, request, net) ==
  LET sources_data == readFromSources(ipfs, sourceList(request.sources), net)
      errors == failed(sources_data)
      parsedData == parseSources(sources_data)
  IN IF Len(errors) > 0
       THEN Rejected(OrbitportSDKError(
              [text |-> "All sources failed", errors |-> [i \in 1..Len(errors) |-> errors[i].error]],
              ErrorCode("NETWORK_ERROR")))
     ELSE IF Len(parsedData) = 0
       THEN Rejected(OrbitportSDKError(
              [text |-> "No valid beacon data found from any source"],
              ErrorCode("INVALID_RESPONSE")))
     ELSE IF request.enableComparison /\ Len(parsedData) >= 2
       THEN Resolved(compareBeaconData(find(parsedData, "gateway"), find(parsedData, "api")))
     ELSE Resolved(parsedData[1].data)

\* A variant that returns the last record parsed, not the first.
getBeaconAttemptLastParsed(ipfs, request, net) ==
  LET sources_data == readFromSources(ipfs, sourceList(request.sources), net)
      errors == failed(sources_data)
      parsedData == parseSources(sources_data)
  IN IF Len(errors) = Len(sources_data)
       THEN Rejected(OrbitportSDKError(
              [text |-> "All sources failed", errors |-> [i \in 1..Len(errors) |-> errors[i].error]],
              ErrorCode("NETWORK_ERROR")))
     ELSE IF Len(parsedData) = 0
       THEN Rejected(OrbitportSDKError(
              [text |-> "No valid beacon data found from any source"],
              ErrorCode("INVALID_RESPONSE")))
     ELSE IF request.enableComparison /\ Len(parsedData) >= 2
       THEN Resolved(compareBeaconData(find(parsedData, "gateway"), find(parsedData, "api")))
     ELSE Resolved(parsedData[Len(parsedData)].data)

\* Lines 885-931: what the function handed to withRetry does with the
\* sources_data that readFromSources resolved with.
decideRound(request, sources_data) ==
  LET errors == failed(sources_data)
      parsedData == parseSources(sources_data)
  IN IF Len(errors) = Len(sources_data)
       THEN Rejected(OrbitportSDKError(
              [text |-> "All sources failed", errors |-> [i \in 1..Len(errors) |-> errors[i].error]],
              ErrorCode("NETWORK_ERROR")))
     ELSE IF Len(parsedData) = 0
       THEN Rejected(OrbitportSDKError(
              [text |-> "No valid beacon data found from any source"],
              ErrorCode("INVALID_RESPONSE")))
     ELSE IF request.enableComparison /\ Len(parsedData) >= 2
       THEN Resolved(compareBeaconData(find(parsedData, "gateway"), find(parsedData, "api")))
     ELSE Resolved(parsedData[1].data)

\* One invocation of the function getBeacon hands to withRetry: a fetch
\* round, the parse of what came back and the choice of the result.
getBeaconAttempt(ipfs, request, net) ==
  decideRound(request, readFromSources(ipfs, sourceList(request.sources), net))

(***************************************************************************)
(* Request validation (src/src/utils/validation.ts).  A request is a       *)
(* record holding the keys the caller supplied.                            *)
(***************************************************************************)
Get(obj, key) == IF key \in DOMAIN obj THEN obj[key] ELSE Undefined

isNonNegativeInteger(v) == isInteger(v) /\ v.n >= 0

\* A variant that looks at the beacon's parameters of an 'ipfs' request
\* only, and lets them pass on any other.
validateCTRNGRequestIpfsOnly(request) ==
  LET src == Get(request, "src")
      index == Get(request, "index")
      block == Get(request, "block")
      errors ==
        (IF Truthy(src) /\ src \notin {Str("trng"), Str("rng"), Str("ipfs")}
           THEN <<"src must be one of: trng, rng, ipfs">> ELSE <<>>)
        \o (IF src = Str("ipfs") /\ Truthy(Get(request, "beaconPath"))
                 /\ ~isValidPath(Get(request, "beaconPath"))
              THEN <<"beaconPath must be a valid IPFS/IPNS path starting with /ipns/ or /ipfs/">>
              ELSE <<>>)
        \o (IF src = Str("ipfs") /\ index # Undefined /\ ~isNonNegativeInteger(index)
              THEN <<"index must be a non-negative integer">> ELSE <<>>)
        \o (IF src = Str("ipfs") /\ block # Undefined /\ block # Str("INF")
                 /\ ~isNonNegativeInteger(block)
              THEN <<"block must be 'INF' or a non-negative integer">> ELSE <<>>)
  IN [valid |-> Len(errors) = 0, errors |-> errors]

validateCTRNGRequest(request) ==
  LET src == Get(request, "src")
      beaconPath == Get(request, "beaconPath")
      index == Get(request, "index")
      block == Get(request, "block")
      srcErrors ==
        IF Truthy(src) /\ src \notin {Str("trng"), Str("rng"), Str("ipfs")}
          THEN <<"src must be one of: trng, rng, ipfs">> ELSE <<>>
      pathErrors ==
        IF Truthy(beaconPath) /\ ~isValidPath(beaconPath)
          THEN <<"beaconPath must be a valid IPFS/IPNS path starting with /ipns/ or /ipfs/">>
          ELSE <<>>
      indexErrors ==
        IF index # Undefined /\ ~isNonNegativeInteger(index)
          THEN <<"index must be a non-negative integer">> ELSE <<>>
      blockErrors ==
        IF block # Undefined /\ block # Str("INF") /\ ~isNonNegativeInteger(block)
          THEN <<"block must be 'INF' or a non-negative integer">> ELSE <<>>
      hasIpfsParams == {"beaconPath", "index", "block"} \cap DOMAIN request # {}
      otherErrors ==
        IF hasIpfsParams
          THEN <<"IPFS-specific parameters (beaconPath, index, block) can only be used with src: 'ipfs'">>
          ELSE <<>>
      errors == srcErrors \o (IF src = Str("ipfs")
                                THEN pathErrors \o indexErrors \o blockErrors
                                ELSE otherErrors)
  IN [valid |-> Len(errors) = 0, errors |-> errors]

\* sanitizeCTRNGRequest: the sanitized request, or the validation error thrown.
sanitizeCTRNGRequest(request) ==
  LET validation == validateCTRNGRequest(request)
  IN IF ~validation.valid
       THEN Rejected(createValidationError(validation.errors))
     ELSE IF Get(request, "src") = Str("ipfs")
       THEN Resolved([ src |-> Str("ipfs"),
                       beaconPath |-> Get(request, "beaconPath"),
                       block |-> Or(Get(request, "block"), Str("INF")),
                       index |-> Or(Get(request, "index"), Num(0)) ])
     ELSE Resolved([src |-> Or(Get(request, "src"), Str("trng"))])

(***************************************************************************)
(* The value selection of CTRNGService._getFromIPFSBeacon                  *)
(* (src/src/services/ctrng.ts:296-414).                                    *)
(***************************************************************************)
\* A variant that clamps an index past the end to the last position.
actualIndexClamped(requestedIndex, length) ==
  IF requestedIndex < length THEN requestedIndex ELSE length - 1

\* requestedIndex % ctrngArray.length, as a position of the 1-based sequence.
actualIndex(requestedIndex, length) == requestedIndex % length

\* A variant that keeps `gateway || api` whatever the sequences are.
selectedBeaconDataGatewayFirst(data) ==
  IF data.gateway # Null THEN data.gateway ELSE data.api

\* The record the value is taken from when the result is a comparison.
selectedBeaconData(data) ==
  LET beaconData == IF data.gateway # Null THEN data.gateway ELSE data.api
  IN IF ~data.match /\ data.gateway # Null /\ data.api # Null
       THEN IF data.gateway.sequence > data.api.sequence THEN data.gateway
            ELSE IF data.api.sequence > data.gateway.sequence THEN data.api
            ELSE beaconData
       ELSE beaconData

\* A variant that does not look at the length of the array: the read of
\* ctrngArray[NaN] is undefined and toString of it a TypeError.
ctrngResponseUnguarded(beacon, ipfsRequest) ==
  LET ctrngArray == beacon.ctrng
      requestedIndex == Coalesce(Get(ipfsRequest, "index"), Num(0)).n
  IN IF Len(ctrngArray) = 0
       THEN Rejected([name |-> "TypeError", message |-> {"Cannot", "read", "properties", "of", "undefined"}])
       ELSE Resolved([ service |-> "ipfs-beacon", src |-> "ipfs",
                       data |-> toString(ctrngArray[(requestedIndex % Len(ctrngArray)) + 1]),
                       timestamp |-> beacon.timestamp,
                       provider |-> "ipfs-beacon" ])

\* The CTRNGResponse built from the selected record.
ctrngResponse(beacon, ipfsRequest) ==
  LET ctrngArray == beacon.ctrng
      requestedIndex == Coalesce(Get(ipfsRequest, "index"), Num(0)).n
      ctrngValue == ctrngArray[actualIndex(requestedIndex, Len(ctrngArray)) + 1]
  IN IF Len(ctrngArray) = 0
       THEN Rejected(OrbitportSDKError([text |-> "No cTRNG values found in beacon data"],
                                       ErrorCode("INVALID_RESPONSE")))
       ELSE Resolved([ service |-> "ipfs-beacon", src |-> "ipfs",
                       data |-> toString(ctrngValue),
                       timestamp |-> beacon.timestamp,
                       provider |-> "ipfs-beacon" ])

\* The record _getFromIPFSBeacon takes the value from, lines 305-345.
selectedRecord(data) == IF "match" \in DOMAIN data THEN selectedBeaconData(data) ELSE data

\* What _getFromIPFSBeacon makes of the data getBeaconWithBlockTraversal returned.
selectFromBeacon(data, ipfsRequest) ==
  IF "match" \in DOMAIN data
    THEN IF data.gateway = Null /\ data.api = Null
           THEN Rejected(OrbitportSDKError([text |-> "No valid beacon data found from any source"],
                                           ErrorCode("INVALID_RESPONSE")))
           ELSE ctrngResponse(selectedBeaconData(data), ipfsRequest)
    ELSE ctrngResponse(data, ipfsRequest)

(***************************************************************************)
(* State.                                                                  *)
(***************************************************************************)
VARIABLES
  call,         \* the call followed: op, config, request, options (never changes)
  pc,           \* where the call is suspended
  ipfsRequest,  \* the request _getFromIPFSBeacon was entered with
  trav,         \* locals of getBeaconWithBlockTraversal; of latestResult the
                \* shape is kept, and the whole where it is returned
  gb,           \* locals of the getBeacon call in progress (and of its withRetry)
  calls,        \* how often each collaborator has been invoked so far
  hist,         \* what has happened so far: the API failure, whether a
                \* getBeacon call failed, whether every hop went one down
  ipfsResult,   \* the data _getFromIPFSBeacon selects from (SpecSelect alone)
  transports,   \* the transport calls of the fetch round in progress, where
                \* a round is followed call by call (SpecFetch alone)
  auth,         \* the AuthService, its token storage and the clock, where
                \* they are followed (SpecStorage, SpecAuth)
  sdk,          \* the OrbitportSDK's configuration and its services' (SpecSdk)
  outcome       \* the settlement of the call

vars == <<call, pc, ipfsRequest, trav, gb, calls, hist, ipfsResult, transports, auth, sdk, outcome>>

\* The changing part of the state as one value: the operators below take it
\* and return the state the code leaves behind at its next suspension point.
Cur == [ pc |-> pc, ipfsRequest |-> ipfsRequest, trav |-> trav, gb |-> gb,
         calls |-> calls, hist |-> hist, outcome |-> outcome ]

NoTransports == [active |-> FALSE]
NoAuth == [active |-> FALSE]
NoSdk == [active |-> FALSE]

Settles(n) ==
  /\ pc' = n.pc
  /\ ipfsRequest' = n.ipfsRequest
  /\ trav' = n.trav
  /\ gb' = n.gb
  /\ calls' = n.calls
  /\ hist' = n.hist
  /\ outcome' = n.outcome
  /\ UNCHANGED <<call, ipfsResult, auth, sdk>>

Becomes(n) == Settles(n) /\ UNCHANGED transports

NoTrav == [active |-> FALSE]
NoGb == [active |-> FALSE]
NoCalls == [ getToken |-> 0, apiFetch |-> 0, ipfsBeacon |-> 0, traversal |-> 0,
             getBeacon |-> 0, rounds |-> 0, fetches |-> 0, hops |-> 0, onRetry |-> 0 ]
NoHist == [ apiError |-> Undefined, unitSteps |-> TRUE, retrievalFailed |-> FALSE,
            hopDiffered |-> FALSE, descending |-> TRUE, nonIncreasing |-> TRUE,
            caught |-> Undefined, selected |-> Null ]

\* The call settles: its promise resolves or rejects.
settle(s, out) == [s EXCEPT !.pc = "done", !.outcome = out]

\* A variant in which no caller of getBeacon catches.
getBeaconRejectsToCaller(s, result) == settle([s EXCEPT !.hist.retrievalFailed = TRUE], result)

\* getBeacon rejects.  getBeaconWithFallback awaits its gateway-only call
\* inside a try (part_000:985-997): the rejection is caught and the catch
\* block is entered.  No other caller catches, so the call rejects with it.
getBeaconRejects(s, result) ==
  IF s.gb.site = "fallbackGateway"
    THEN [s EXCEPT !.pc = "catch", !.hist.retrievalFailed = TRUE, !.hist.caught = result.error]
  ELSE settle([s EXCEPT !.hist.retrievalFailed = TRUE], result)

(***************************************************************************)
(* BeaconService.getBeacon (src/unnamed/part_000:852-961) and withRetry    *)
(* (src/src/utils/retry.ts:58-94).                                         *)
(***************************************************************************)
DefaultRetries == 3

\* options.retries || 3
maxAttempts(options) == Or(Get(options, "retries"), Num(DefaultRetries)).n

\* A fetch round is issued: one transport call per requested source.
issueRound(s) ==
  [s EXCEPT !.pc = "fetch",
            !.calls.rounds = @ + 1,
            !.calls.fetches = @ + Cardinality(sourceList(s.gb.request.sources))]

\* A variant without the path check: the fetches are issued for any path.
getBeaconUnchecked(s, request, site) ==
  issueRound([s EXCEPT !.calls.getBeacon = @ + 1, !.calls.rounds = 0, !.calls.fetches = 0,
                     !.calls.onRetry = 0,
                       !.gb = [ active |-> TRUE, request |-> request, site |-> site,
                                attempt |-> 1, maxAttempts |-> maxAttempts(call.options) ]])

\* Entry of getBeacon, up to its first suspension: the path check, then the
\* first invocation of the wrapped function, which issues the fetches.
getBeacon(s, request, site) ==
  LET e == [s EXCEPT !.calls.getBeacon = @ + 1, !.calls.rounds = 0, !.calls.fetches = 0,
                     !.calls.onRetry = 0,
                     !.gb = [ active |-> TRUE, request |-> request, site |-> site,
                              attempt |-> 1, maxAttempts |-> maxAttempts(call.options) ]]
  IN IF ~isValidPath(request.path)
       THEN getBeaconRejects(e, Rejected(OrbitportSDKError(
                     [text |-> "Invalid path: must start with /ipns/ or /ipfs/"],
                     ErrorCode("INVALID_RESPONSE"))))
     ELSE IF e.gb.maxAttempts < 1
       THEN getBeaconRejects(e, Rejected(Undefined))
     ELSE issueRound(e)

(***************************************************************************)
(* BeaconService.getBeaconWithBlockTraversal                               *)
(* (src/unnamed/part_000:1018-1149).                                       *)
(***************************************************************************)
\* The record taken from a getBeacon result: the plain record, or of a
\* comparison `gateway || api`.
authoritative(data) ==
  IF "sequence" \in DOMAIN data THEN data
  ELSE IF data.gateway # Null THEN data.gateway ELSE data.api

\* How getBeaconWithBlockTraversal's result reaches the caller of the call
\* followed: random() selects a value from it, a direct caller receives it.
traversalReturns(s, data) ==
  IF call.op = "random"
    THEN LET response == selectFromBeacon(data, s.ipfsRequest)
         IN settle([s EXCEPT !.hist.selected =
                               IF response.status = "resolved" THEN selectedRecord(data) ELSE @],
                   response)
    ELSE settle(s, Resolved(data))

\* The requested block is kept as trav.block, its integer part, and trav.half,
\* which says that it is that integer plus 1/2.  block === q, for an integer q:
blockIs(s, q) == ~s.trav.half /\ s.trav.block = q
\* block > q, that is q < block, for an integer q.
blockAbove(s, q) == s.trav.block > q \/ (s.trav.half /\ s.trav.block = q)
\* The requested block as the messages print it.
blockValue(s) == IF s.trav.half THEN Half(s.trav.block) ELSE s.trav.block

\* A variant that returns the record the loop ended at, whatever its sequence.
afterLoopUnchecked(s) ==
  IF s.trav.latestIsPlain
    THEN traversalReturns(s, s.trav.targetBeacon)
    ELSE traversalReturns(s, [gateway |-> s.trav.targetBeacon, api |-> Null, match |-> TRUE])

\* A variant that returns the record found as a plain record, whatever the
\* shape of the latest result.
afterLoopPlain(s) ==
  IF ~blockIs(s, s.trav.targetBeacon.sequence)
    THEN settle(s, Rejected(OrbitportSDKError(
                  [ text |-> "Failed to reach block. Current block:",
                    block |-> blockValue(s), current |-> s.trav.targetBeacon.sequence ],
                  ErrorCode("INVALID_REQUEST"))))
    ELSE traversalReturns(s, s.trav.targetBeacon)

\* Lines 1117-1148: after the loop.
afterLoop(s) ==
  LET block == blockValue(s)
      targetBeacon == s.trav.targetBeacon
  IN IF ~blockIs(s, targetBeacon.sequence)
       THEN settle(s, Rejected(OrbitportSDKError(
                     [ text |-> "Failed to reach block. Current block:",
                       block |-> block, current |-> targetBeacon.sequence ],
                     ErrorCode("INVALID_REQUEST"))))
     ELSE IF s.trav.latestIsPlain
       THEN traversalReturns(s, targetBeacon)
       ELSE traversalReturns(s, [gateway |-> targetBeacon, api |-> Null, match |-> TRUE])

\* A variant whose loop goes on for as long as there is a previous link.
loopUnbounded(s) ==
  IF Truthy(s.trav.targetBeacon.previous)
    THEN getBeacon([s EXCEPT !.calls.hops = @ + 1],
                   [s.trav.request EXCEPT !.path = s.trav.targetBeacon.previous], "hop")
    ELSE afterLoop(s)

\* Line 1074: the loop condition, and lines 1082-1086: the next hop's getBeacon.
\* trav.maxTraversal holds currentSequence - trav.block; when the block is that
\* integer plus 1/2 the code's bound is 1/2 less, which the whole number
\* traversedBlocks is below exactly when it is below trav.maxTraversal.
loop(s) ==
  IF s.trav.traversedBlocks < s.trav.maxTraversal /\ Truthy(s.trav.targetBeacon.previous)
    THEN getBeacon([s EXCEPT !.calls.hops = @ + 1],
                   [s.trav.request EXCEPT !.path = s.trav.targetBeacon.previous], "hop")
    ELSE afterLoop(s)

\* A variant that walks on from a record below the target.
afterHopWalksOn(s, data) ==
  LET previousBeacon == authoritative(data)
      t == [s EXCEPT !.trav.targetBeacon = previousBeacon,
                     !.trav.traversedBlocks = @ + 1,
                     !.hist.unitSteps = @ /\ previousBeacon.sequence = s.trav.targetBeacon.sequence - 1,
                     !.hist.hopDiffered = @ \/ ("match" \in DOMAIN data /\ ~data.match),
                     !.hist.descending = @ /\ previousBeacon.sequence < s.trav.targetBeacon.sequence,
                     !.hist.nonIncreasing = @ /\ previousBeacon.sequence <= s.trav.targetBeacon.sequence]
  IN IF blockIs(s, previousBeacon.sequence) THEN afterLoop(t) ELSE loop(t)

\* A variant that assumes a fixed step: a record whose sequence is not one
\* below its successor's ends the walk.
afterHopFixedStep(s, data) ==
  LET previousBeacon == authoritative(data)
      t == [s EXCEPT !.trav.targetBeacon = previousBeacon,
                     !.trav.traversedBlocks = @ + 1,
                     !.hist.unitSteps = @ /\ previousBeacon.sequence = s.trav.targetBeacon.sequence - 1,
                     !.hist.hopDiffered = @ \/ ("match" \in DOMAIN data /\ ~data.match),
                     !.hist.descending = @ /\ previousBeacon.sequence < s.trav.targetBeacon.sequence,
                     !.hist.nonIncreasing = @ /\ previousBeacon.sequence <= s.trav.targetBeacon.sequence]
  IN IF previousBeacon.sequence # s.trav.targetBeacon.sequence - 1
       THEN settle(t, Rejected(OrbitportSDKError(
                     [ text |-> "Block not found in chain. Last available block:",
                       block |-> blockValue(s), last |-> previousBeacon.sequence ],
                     ErrorCode("INVALID_REQUEST"))))
     ELSE IF blockIs(s, previousBeacon.sequence) THEN afterLoop(t)
     ELSE loop(t)

\* Lines 1088-1115: a hop's getBeacon has resolved with `data`.
afterHop(s, data) ==
  LET previousBeacon == authoritative(data)
      block == blockValue(s)
      t == [s EXCEPT !.trav.targetBeacon = previousBeacon,
                     !.trav.traversedBlocks = @ + 1,
                     !.hist.unitSteps = @ /\ previousBeacon.sequence = s.trav.targetBeacon.sequence - 1,
                     !.hist.hopDiffered = @ \/ ("match" \in DOMAIN data /\ ~data.match),
                     !.hist.descending = @ /\ previousBeacon.sequence < s.trav.targetBeacon.sequence,
                     !.hist.nonIncreasing = @ /\ previousBeacon.sequence <= s.trav.targetBeacon.sequence]
  IN IF blockIs(s, previousBeacon.sequence) THEN afterLoop(t)
     ELSE IF blockAbove(s, previousBeacon.sequence)
       THEN settle(t, Rejected(OrbitportSDKError(
                     [ text |-> "Block not found in chain. Last available block:",
                       block |-> block, last |-> previousBeacon.sequence ],
                     ErrorCode("INVALID_REQUEST"))))
     ELSE loop(t)

\* A variant that allows one hop less than the distance to the target.
afterLatestOneHopShort(s, data) ==
  LET currentBeacon == authoritative(data)
      currentSequence == currentBeacon.sequence
  IN IF blockAbove(s, currentSequence) \/ blockIs(s, currentSequence)
       THEN traversalReturns([s EXCEPT !.trav.currentSequence = currentSequence,
                                       !.trav.latestResult = data], data)
     ELSE loop([s EXCEPT !.trav.currentSequence = currentSequence,
                         !.trav.latestIsPlain = "sequence" \in DOMAIN data,
                         !.trav.targetBeacon = currentBeacon,
                         !.trav.traversedBlocks = 0,
                         !.trav.maxTraversal = currentSequence - s.trav.block - 1])

\* A variant that hands the latest record back in the shape a traversal
\* returns, not as the result it was resolved with.
afterLatestRewrapped(s, data) ==
  LET currentBeacon == authoritative(data)
      t == [s EXCEPT !.trav.currentSequence = currentBeacon.sequence,
                     !.trav.latestResult = data,
                     !.trav.latestIsPlain = "sequence" \in DOMAIN data,
                     !.trav.targetBeacon = currentBeacon]
  IN IF blockIs(s, currentBeacon.sequence) THEN afterLoop(t)
     ELSE settle(t, Rejected(OrbitportSDKError([text |-> "not at the latest block"],
                                               ErrorCode("INVALID_REQUEST"))))

\* Lines 1042-1072: the latest record has been resolved with `data`.
afterLatest(s, data) ==
  LET currentBeacon == authoritative(data)
      currentSequence == currentBeacon.sequence
      block == blockValue(s)
  IN IF blockAbove(s, currentSequence)
       THEN settle([s EXCEPT !.trav.currentSequence = currentSequence],
                   Rejected(OrbitportSDKError(
                     [ text |-> "Requested block is greater than current block",
                       block |-> block, current |-> currentSequence ],
                     ErrorCode("INVALID_REQUEST"))))
     ELSE IF blockIs(s, currentSequence)
       THEN traversalReturns([s EXCEPT !.trav.currentSequence = currentSequence,
                                       !.trav.latestResult = data], data)
     ELSE loop([s EXCEPT !.trav.currentSequence = currentSequence,
                         !.trav.latestIsPlain = "sequence" \in DOMAIN data,
                         !.trav.targetBeacon = currentBeacon,
                         !.trav.traversedBlocks = 0,
                         !.trav.maxTraversal = currentSequence - s.trav.block])

\* Entry of getBeaconWithBlockTraversal, lines 1022-1041.
getBeaconWithBlockTraversal(s, request) ==
  LET block == Coalesce(Get(request, "block"), Str("INF"))
      t == [s EXCEPT !.calls.traversal = @ + 1,
                     !.trav = [ active |-> TRUE, request |-> request, block |-> block,
                                half |-> FALSE,
                                currentSequence |-> -1, latestResult |-> Undefined,
                                latestIsPlain |-> TRUE,
                                targetBeacon |-> Null, traversedBlocks |-> 0,
                                maxTraversal |-> 0 ]]
  IN IF block = Str("INF") THEN getBeacon(t, request, "inf")
     ELSE IF block.type # "number" \/ block.n < 0
       THEN settle(t, Rejected(OrbitportSDKError(
                     [text |-> "Block number must be a non-negative integer"],
                     ErrorCode("INVALID_REQUEST"))))
     ELSE getBeacon([t EXCEPT !.trav.block = block.n, !.trav.half = ~isInteger(block)],
                    request, "latest")

\* getBeaconWithFallback, lines 975-981, 989-996 and 1002-1008: the result
\* is returned if its data is a record, and an error is thrown otherwise; the
\* throw of lines 993-996 is inside the try, and so caught.
fallbackReturns(s, data, source) ==
  IF "sequence" \in DOMAIN data THEN settle(s, Resolved(data))
  ELSE LET error == OrbitportSDKError([text |-> "Unexpected response type from " \o source],
                                      ErrorCode("INVALID_RESPONSE"))
       IN IF s.gb.site = "fallbackGateway"
            THEN [s EXCEPT !.pc = "catch", !.hist.caught = error]
          ELSE settle(s, Rejected(error))

\* A getBeacon call has resolved with `data`: the code that awaited it goes on.
getBeaconResolves(s, data) ==
  CASE s.gb.site = "direct" -> settle(s, Resolved(data))
    [] s.gb.site = "inf" -> traversalReturns(s, data)
    [] s.gb.site = "latest" -> afterLatest(s, data)
    [] s.gb.site = "hop" -> afterHop(s, data)
    [] s.gb.site = "fallbackOff" -> fallbackReturns(s, data, "getBeacon")
    [] s.gb.site = "fallbackGateway" -> fallbackReturns(s, data, "gateway")
    [] s.gb.site = "fallbackApi" -> fallbackReturns(s, data, "API")

\* A variant that tries once more than maxAttempts says.
withRetrySettlesOnceMore(s, result) ==
  IF result.status = "resolved" THEN getBeaconResolves(s, result.value)
  ELSE IF ~isRetryableError(result.error) THEN getBeaconRejects(s, result)
  ELSE IF s.gb.attempt = s.gb.maxAttempts + 1 THEN getBeaconRejects(s, result)
  ELSE [s EXCEPT !.pc = "sleep", !.calls.onRetry = @ + 1]

\* A variant that retries whatever the kind of the failure.
withRetrySettlesAnyKind(s, result) ==
  IF result.status = "resolved" THEN getBeaconResolves(s, result.value)
  ELSE IF s.gb.attempt = s.gb.maxAttempts THEN getBeaconRejects(s, result)
  ELSE [s EXCEPT !.pc = "sleep", !.calls.onRetry = @ + 1]

\* withRetry, lines 66-90: the wrapped function has settled with `result`.
\* Before the backoff sleep the onRetry callback is called.
withRetrySettles(s, result) ==
  IF result.status = "resolved" THEN getBeaconResolves(s, result.value)
  ELSE IF ~isRetryableError(result.error) THEN getBeaconRejects(s, result)
  ELSE IF s.gb.attempt = s.gb.maxAttempts THEN getBeaconRejects(s, result)
  ELSE [s EXCEPT !.pc = "sleep", !.calls.onRetry = @ + 1]

\* withRetry, line 66: the backoff delay has elapsed, the next attempt starts.
nextAttempt(s) == issueRound([s EXCEPT !.gb.attempt = @ + 1])

\* getBeacon, line 856: the defaults of the request's fields.
beaconRequest(path, sources) == [path |-> path, sources |-> sources, enableComparison |-> FALSE]

\* The constructor of BeaconService, lines 587-593: enableFallback is true
\* unless the configuration says otherwise.
enableFallback(config) ==
  IF "enableFallback" \in DOMAIN config THEN config.enableFallback ELSE TRUE

\* Entry of getBeaconWithFallback, lines 973-974 and 985-988.
getBeaconWithFallback(s, config, path) ==
  IF ~enableFallback(config)
    THEN getBeacon(s, beaconRequest(path, {"both"}), "fallbackOff")
  ELSE getBeacon(s, beaconRequest(path, {"gateway"}), "fallbackGateway")

\* The catch block of getBeaconWithFallback, lines 997-1001.
fallbackCatches(s, path) == getBeacon(s, beaconRequest(path, {"api"}), "fallbackApi")

(***************************************************************************)
(* CTRNGService (src/src/services/ctrng.ts).                               *)
(***************************************************************************)
\* createNetworkError: an Error is [name, message], the message kept as the
\* set of the words it contains.
createNetworkError(error) ==
  IF error.name = "AbortError" \/ "timeout" \in error.message
    THEN OrbitportSDKError([text |-> "Request timeout"], ErrorCode("TIMEOUT"))
  ELSE IF "fetch" \in error.message
    THEN OrbitportSDKError([text |-> "Connection failed"], ErrorCode("CONNECTION_FAILED"))
  ELSE OrbitportSDKError([text |-> error.message], ErrorCode("NETWORK_ERROR"))

\* createErrorFromAPIResponse: the code is the body's error_code when it has one.
createErrorFromAPIResponse(apiError) ==
  OrbitportSDKError([text |-> "API Error"],
                    IF Truthy(Get(apiError, "error_code"))
                      THEN Get(apiError, "error_code").s
                      ELSE ErrorCode("API_ERROR"))

\* _validateResponse: TRUE when the body passes, else the message thrown.
\* A body is Null, or a record of the fields it has.
validateResponseError(data) ==
  IF data = Null THEN "Invalid response: expected object"
  ELSE IF ~(Get(data, "service").type = "string" /\ Truthy(Get(data, "service")))
    THEN "Invalid response: missing or invalid service field"
  ELSE IF ~(Get(data, "src").type = "string" /\ Truthy(Get(data, "src")))
    THEN "Invalid response: missing or invalid src field"
  ELSE IF ~(Get(data, "data").type = "string" /\ Truthy(Get(data, "data")))
    THEN "Invalid response: missing or invalid data field"
  ELSE IF "signature" \in DOMAIN data /\ ~Truthy(Get(data.signature, "value"))
    THEN "Invalid response: missing signature value"
  ELSE IF "signature" \in DOMAIN data /\ Get(data.signature, "pk") = Undefined
    THEN "Invalid response: missing signature pk field"
  ELSE "valid"

\* _getFromAPI, lines 165-245: what the awaited fetch leads to.  `answer` is
\* [rejects |-> error], or [ok |-> BOOLEAN, json |-> body or NotJson].
apiFetchResult(answer) ==
  IF "rejects" \in DOMAIN answer
    THEN IF answer.rejects.name = "AbortError"
           THEN Rejected(OrbitportSDKError([text |-> "cTRNG request timeout"], ErrorCode("TIMEOUT")))
           ELSE Rejected(createNetworkError(answer.rejects))
  ELSE IF ~answer.ok
    THEN Rejected(createErrorFromAPIResponse(
                    IF answer.json = NotJson THEN [error |-> Str("Unknown error")] ELSE answer.json))
  ELSE IF answer.json = NotJson
    THEN Rejected(createNetworkError([name |-> "SyntaxError", message |-> {"Unexpected", "token"}]))
  ELSE IF validateResponseError(answer.json) # "valid"
    THEN Rejected(OrbitportSDKError([text |-> validateResponseError(answer.json)],
                                    ErrorCode("INVALID_RESPONSE")))
  ELSE Resolved(answer.json)

\* _getFromIPFSBeacon, lines 250-294: up to the awaited traversal.
getFromIPFSBeacon(s, request) ==
  LET e == [s EXCEPT !.calls.ipfsBeacon = @ + 1, !.ipfsRequest = request]
      beaconPath == Or(Get(request, "beaconPath"), Get(call.config.ipfs, "defaultBeaconPath"))
  IN IF request.src # Str("ipfs")
       THEN settle(e, Rejected(OrbitportSDKError([text |-> "Invalid request type for IPFS beacon"],
                                                 ErrorCode("INVALID_REQUEST"))))
     ELSE IF ~Truthy(beaconPath)
       THEN settle(e, Rejected(OrbitportSDKError(
                     [text |-> "No beacon path provided and no default beacon path configured"],
                     ErrorCode("INVALID_REQUEST"))))
     ELSE getBeaconWithBlockTraversal(e,
            [ path |-> beaconPath, sources |-> {"both"}, enableComparison |-> TRUE,
              block |-> Get(request, "block") ])

\* The request random() builds when it turns to the beacon on its own.
ipfsFallbackRequest == [src |-> Str("ipfs"), block |-> Str("INF"), index |-> Num(0)]

\* _getFromAPI, lines 139-143: up to the awaited getToken.
getFromAPI(s, request) == [s EXCEPT !.pc = "getToken", !.calls.getToken = @ + 1]

\* A variant without the catch: the failure of the API is the call's.
apiFailedRethrows(s, apiError) == settle([s EXCEPT !.hist.apiError = apiError], Rejected(apiError))

\* random(), lines 95-111: the catch around _getFromAPI.
apiFailed(s, apiError) == getFromIPFSBeacon([s EXCEPT !.hist.apiError = apiError], ipfsFallbackRequest)

hasCredentials(config) == Truthy(Get(config, "clientId")) /\ Truthy(Get(config, "clientSecret"))

\* A variant that turns to the API for every request that does not name the
\* beacon, whether credentials are configured or not.
randomApiFirst(s, request) ==
  LET sanitized == sanitizeCTRNGRequest(request)
  IN IF sanitized.status = "rejected" THEN settle(s, sanitized)
     ELSE IF sanitized.value.src = Str("ipfs") THEN getFromIPFSBeacon(s, sanitized.value)
     ELSE getFromAPI(s, sanitized.value)

\* random(), lines 51-134: up to its first suspension.
random(s, request) ==
  LET sanitized == sanitizeCTRNGRequest(request)
      sanitizedRequest ==
        IF ~hasCredentials(call.config) /\ sanitized.value.src # Str("ipfs")
          THEN ipfsFallbackRequest
          ELSE sanitized.value
  IN IF sanitized.status = "rejected" THEN settle(s, sanitized)
     ELSE IF sanitizedRequest.src = Str("ipfs") THEN getFromIPFSBeacon(s, sanitizedRequest)
     ELSE IF sanitizedRequest.src \in {Str("trng"), Str("rng")}
       THEN IF hasCredentials(call.config)
              THEN getFromAPI(s, sanitizedRequest)
              ELSE getFromIPFSBeacon(s, ipfsFallbackRequest)
     ELSE settle(s, Rejected(OrbitportSDKError([text |-> "Invalid request type"],
                                               ErrorCode("INVALID_REQUEST"))))

\* _getFromAPI, lines 143-178: getToken has settled; with a token the fetch is issued.
\* `token` is [rejects |-> error] or [value |-> token].
tokenSettles(s, token) ==
  IF "rejects" \in DOMAIN token THEN apiFailed(s, token.rejects)
  ELSE IF ~Truthy(token.value)
    THEN apiFailed(s, OrbitportSDKError([text |-> "No valid authentication token available"],
                                        ErrorCode("AUTH_FAILED")))
  ELSE [s EXCEPT !.pc = "apiFetch", !.calls.apiFetch = @ + 1]

\* A variant that sends the API request again after a failure of a kind
\* withRetry retries, for as many attempts as options.retries allows.
apiFetchSettlesRetrying(s, answer) ==
  LET result == apiFetchResult(answer)
  IN IF result.status = "resolved" THEN settle(s, result)
     ELSE IF isRetryableError(result.error) /\ s.calls.apiFetch < maxAttempts(call.options)
       THEN [s EXCEPT !.calls.apiFetch = @ + 1]
     ELSE apiFailed(s, result.error)

\* The awaited API fetch has settled.
apiFetchSettles(s, answer) ==
  LET result == apiFetchResult(answer)
  IN IF result.status = "resolved" THEN settle(s, result) ELSE apiFailed(s, result.error)

(***************************************************************************)
(* The inputs: calls, and what the network may answer.                     *)
(***************************************************************************)
\* A record holding key k with a value of V, or not holding it.
Opt(k, V) == {<<>>} \cup {k :> v : v \in V}

BeaconPath == Path(<<IpnsPrefix, "beacon">>)
CustomPath == Path(<<IpfsPrefix, "custom">>)
PreviousPath == Path(<<IpfsPrefix, "previous">>)
UnprefixedPath == Path(<<"mock-previous-cid">>)

\* ctrng arrays of 0..MaxLen values; the values of a beacon differ by position
\* and between the variants a beacon's content comes in.
ctrngOf(variant, n) == [i \in 1..n |-> 10 * variant + i]
Content(variant, n) == [timestamp |-> Num(variant), ctrng |-> Arr(ctrngOf(variant, n))]

\* The beacons of the network: one variant with a full array, one with an
\* empty array.
Contents == {Content(1, MaxLen), Content(2, 0)}

Beacons ==
  { JsonBody(previous, [sequence |-> sequence] @@ content) :
      previous \in {Undefined, Null, PreviousPath, UnprefixedPath},
      sequence \in 0..MaxSeq,
      content \in Contents }

\* What one transport call may answer: an error, a body that does not parse,
\* or a beacon.
Answers ==
  {[error |-> "failed"], [text |-> NotJson], [text |-> EmptyText]} \cup {[text |-> b] : b \in Beacons}
NoAnswer == [error |-> "not requested"]

\* The answers of one fetch round to the sources requested.
RoundAnswers(sources) ==
  { [gateway |-> g, api |-> a] :
      g \in IF "gateway" \in sourceList(sources) THEN Answers ELSE {NoAnswer},
      a \in IF "api" \in sourceList(sources) THEN Answers ELSE {NoAnswer} }

IpfsUrls == {[gateway |-> {"ipfs.io"}, apiUrl |-> {"ipfs.io"}]}
SourceSets == {{"both"}, {"gateway"}, {"api"}}
urlsOf(ipfs) == [gateway |-> ipfs.gateway, apiUrl |-> ipfs.apiUrl]

\* What a fetch round can come to, for each configuration and request.
RoundResults ==
  [ urls \in IpfsUrls, sources \in SourceSets, enableComparison \in BOOLEAN |->
      { getBeaconAttempt(urls, [sources |-> sources, enableComparison |-> enableComparison], net) :
          net \in RoundAnswers(sources) } ]

\* A hop reads of the data it is given only the authoritative record, so the
\* results of a hop's round are told apart by that record and, for a
\* comparison, by whether the two sources matched.
hopData(data) ==
  IF "sequence" \in DOMAIN data THEN data
  ELSE [gateway |-> authoritative(data), api |-> Null, match |-> data.match]

HopResults ==
  [ urls \in IpfsUrls, sources \in SourceSets, enableComparison \in BOOLEAN |->
      { IF r.status = "resolved" THEN Resolved(hopData(r.value)) ELSE r :
          r \in RoundResults[urls, sources, enableComparison] } ]

Retries == {<<>>} \cup {"retries" :> Num(n) : n \in 0..MaxRetries}

Credentials ==
  { <<>>, [clientId |-> Str("id")], [clientId |-> Str("id"), clientSecret |-> Str("secret")] }

IpfsConfigs ==
  { urls @@ d : urls \in IpfsUrls, d \in Opt("defaultBeaconPath", {BeaconPath}) }

Configs == {c @@ [ipfs |-> i] : c \in Credentials, i \in IpfsConfigs}

\* The requests random() is called with; which value an index selects is
\* examined under SpecSelect, here an index is absent, invalid, zero or not.
CTRNGRequests ==
  { a @@ b @@ c @@ d :
      a \in Opt("src", {Str("trng"), Str("rng"), Str("ipfs"), Str("other")}),
      b \in Opt("beaconPath", {CustomPath, UnprefixedPath}),
      c \in Opt("block", {Str("INF")} \cup {Num(n) : n \in -1..(MaxSeq + 1)}),
      d \in Opt("index", {Num(-1), Num(0), Num(1)}) }

\* Numbers that are not integers: -1/2 and 3/2.
NonIntegers == {Half(-1), Half(1)}

BeaconRequests ==
  { [path |-> p, sources |-> s, enableComparison |-> e] @@ b :
      p \in {BeaconPath, UnprefixedPath},
      s \in {{"both"}, {"gateway"}, {"api"}},
      e \in BOOLEAN,
      b \in Opt("block", {Str("INF")} \cup {Num(n) : n \in -1..(MaxSeq + 1)} \cup NonIntegers) }

Tokens == {[value |-> Str("token")], [value |-> Null], [rejects |-> [name |-> "Error", message |-> {"storage"}]]}

ApiBodies ==
  { [service |-> Str("trng"), src |-> Str("trng"), data |-> Str("a1b2")],
    [service |-> Str("trng"), src |-> Str("trng"), data |-> Str("")],
    Null }

ApiAnswers ==
  { [rejects |-> [name |-> "AbortError", message |-> {"aborted"}]],
    [rejects |-> [name |-> "TypeError", message |-> {"fetch", "failed"}]],
    [ok |-> FALSE, json |-> NotJson],
    [ok |-> FALSE, json |-> [error |-> Str("rate"), error_code |-> Str("RATE_LIMITED")]],
    [ok |-> TRUE, json |-> NotJson] }
  \cup {[ok |-> TRUE, json |-> b] : b \in ApiBodies}

BeaconConfigs == {[ipfs |-> urls] : urls \in IpfsUrls}

Calls ==
  { [op |-> "random", config |-> c, request |-> r, options |-> o] :
      c \in Configs, r \in CTRNGRequests, o \in Retries }
  \cup
  { [op |-> op, config |-> c, request |-> r, options |-> o] :
      op \in {"getBeacon", "getBeaconWithBlockTraversal"},
      c \in BeaconConfigs, r \in BeaconRequests, o \in Retries }

(***************************************************************************)
(* The specification: one call, from its entry to its settlement.          *)
(***************************************************************************)
Init ==
  /\ call \in Calls
  /\ pc = "start"
  /\ ipfsRequest = Undefined
  /\ trav = NoTrav
  /\ gb = NoGb
  /\ calls = NoCalls
  /\ hist = NoHist
  /\ ipfsResult = Undefined
  /\ transports = NoTransports
  /\ auth = NoAuth
  /\ sdk = NoSdk
  /\ outcome = Pending

\* ctrng.random(request, options) is called.
Random ==
  /\ pc = "start" /\ call.op = "random"
  /\ Becomes(random(Cur, call.request))

\* beaconService.getBeaconWithBlockTraversal(request, options) is called.
GetBeaconWithBlockTraversal ==
  /\ pc = "start" /\ call.op = "getBeaconWithBlockTraversal"
  /\ Becomes(getBeaconWithBlockTraversal(Cur, call.request))

\* beaconService.getBeacon(request, options) is called.
GetBeacon ==
  /\ pc = "start" /\ call.op = "getBeacon"
  /\ Becomes(getBeacon(Cur, call.request, "direct"))

\* The awaited getToken settles.
TokenSettles ==
  /\ pc = "getToken"
  /\ \E token \in Tokens : Becomes(tokenSettles(Cur, token))

\* The awaited fetch of the centralized API settles.
ApiFetchSettles ==
  /\ pc = "apiFetch"
  /\ \E answer \in ApiAnswers : Becomes(apiFetchSettles(Cur, answer))

\* Every transport call of a fetch round has settled (Promise.all): the
\* wrapped function goes on to its end, and withRetry and its awaiters with it.
RoundSettles ==
  /\ pc = "fetch"
  /\ \E result \in (IF gb.site = "hop" THEN HopResults ELSE RoundResults)
                        [urlsOf(call.config.ipfs), gb.request.sources, gb.request.enableComparison] :
       Becomes(withRetrySettles(Cur, result))

\* The backoff delay of withRetry elapses.
BackoffElapses ==
  /\ pc = "sleep"
  /\ Becomes(nextAttempt(Cur))

Next ==
  \/ Random
  \/ GetBeaconWithBlockTraversal
  \/ GetBeacon
  \/ TokenSettles
  \/ ApiFetchSettles
  \/ RoundSettles
  \/ BackoffElapses

Spec == Init /\ [][Next]_vars

(***************************************************************************)
(* The value selection alone: _getFromIPFSBeacon from the point where the  *)
(* awaited getBeaconWithBlockTraversal has resolved with ipfsResult        *)
(* (src/src/services/ctrng.ts:296-414), over every shape of result and     *)
(* every array length.                                                     *)
(***************************************************************************)
SelectContents == {Content(variant, n) : variant \in {1, 2}, n \in 0..MaxLen}

SelectRecords ==
  { parseBeacon(JsonBody(previous, [sequence |-> sequence] @@ content)).value :
      previous \in {Null, PreviousPath},
      sequence \in 0..MaxSeq,
      content \in SelectContents }

\* What getBeaconWithBlockTraversal resolves with when asked for both sources
\* and their comparison: a getBeacon result, or the record a traversal ended
\* at, in the shape of the latest result.
SelectResults ==
  SelectRecords
  \cup {compareBeaconData(gateway, api) : gateway \in SelectRecords, api \in SelectRecords}
  \cup {[gateway |-> targetBeacon, api |-> Null, match |-> TRUE] : targetBeacon \in SelectRecords}

SelectCalls ==
  { [op |-> "random", config |-> c, request |-> [src |-> Str("ipfs")] @@ d, options |-> <<>>] :
      c \in {c \in Configs : ~hasCredentials(c) /\ "defaultBeaconPath" \in DOMAIN c.ipfs},
      d \in Opt("index", {Num(n) : n \in 0..MaxIndex}) }

InitSelect ==
  /\ call \in SelectCalls
  /\ pc = "select"
  /\ ipfsRequest = sanitizeCTRNGRequest(call.request).value
  /\ trav = NoTrav
  /\ gb = NoGb
  /\ calls = NoCalls
  /\ hist = NoHist
  /\ ipfsResult \in SelectResults
  /\ transports = NoTransports
  /\ auth = NoAuth
  /\ sdk = NoSdk
  /\ outcome = Pending

\* Lines 296-414: the value is selected and random() settles.
Select ==
  /\ pc = "select"
  /\ pc' = "done"
  /\ outcome' = selectFromBeacon(ipfsResult, ipfsRequest)
  /\ UNCHANGED <<call, ipfsRequest, trav, gb, calls, hist, ipfsResult, transports, auth, sdk>>

NextSelect == Select

SpecSelect == InitSelect /\ [][NextSelect]_vars

(***************************************************************************)
(* One fetch round of getBeacon alone (src/unnamed/part_000:876-931), over *)
(* every answer of the sources requested.                                  *)
(***************************************************************************)
\* What a transport call may answer; the two sources can fail differently.
AttemptAnswers == Answers \cup {[error |-> "aborted"]}

\* The answers of one fetch round to the sources requested.
AttemptNets(sources) ==
  { [gateway |-> g, api |-> a] :
      g \in IF "gateway" \in sourceList(sources) THEN AttemptAnswers ELSE {NoAnswer},
      a \in IF "api" \in sourceList(sources) THEN AttemptAnswers ELSE {NoAnswer} }

\* The configured URLs of a round: the ones of the whole call, the pair of
\* the example of updateConfig (https://gateway.pinata.cloud and
\* https://api.pinata.cloud), a gateway whose URL has the letters "api" in it
\* (https://rapid.example) and an api whose URL has "gateway" in it.
RoundUrls ==
  IpfsUrls \cup { [gateway |-> {"gateway", "pinata.cloud"}, apiUrl |-> {"api", "pinata.cloud"}],
                  [gateway |-> {"api", "rapid.example"}, apiUrl |-> {"ipfs.io"}],
                  [gateway |-> {"ipfs.io"}, apiUrl |-> {"gateway", "example"}] }

AttemptCalls ==
  UNION { { [ op |-> "getBeaconAttempt", ipfs |-> urls,
              request |-> [sources |-> sources, enableComparison |-> enableComparison],
              net |-> net ] :
              urls \in RoundUrls, enableComparison \in BOOLEAN, net \in AttemptNets(sources) } :
          sources \in SourceSets }

InitRound ==
  /\ call \in AttemptCalls
  /\ pc = "round"
  /\ ipfsRequest = Undefined
  /\ trav = NoTrav
  /\ gb = NoGb
  /\ calls = NoCalls
  /\ hist = NoHist
  /\ ipfsResult = Undefined
  /\ transports = NoTransports
  /\ auth = NoAuth
  /\ sdk = NoSdk
  /\ outcome = Pending

\* The round settles.
Round ==
  /\ pc = "round"
  /\ pc' = "done"
  /\ outcome' = getBeaconAttempt(call.ipfs, call.request, call.net)
  /\ UNCHANGED <<call, ipfsRequest, trav, gb, calls, hist, ipfsResult, transports, auth, sdk>>

NextRound == Round

SpecRound == InitRound /\ [][NextRound]_vars

(***************************************************************************)
(* getBeacon followed transport call by transport call                     *)
(* (src/unnamed/part_000:621-741, 828-844): each round's readViaGateway    *)
(* and readViaApi are followed from one await to the next, their fetches   *)
(* answered or not in any order.                                           *)
(***************************************************************************)
\* A transport call: the await it is suspended at, whether its abort timer
\* is set, and once it has returned the IPFSSource it returned.
NotRequested == [at |-> "none", timer |-> FALSE]
Returned(result) == [at |-> "done", timer |-> FALSE, result |-> result]
\* A transport call that rejects, which the code has none of.
Threw(error) == [at |-> "threw", timer |-> FALSE, error |-> error]

\* `error instanceof Error ? error.message : fallback`
messageOf(error, fallback) == IF "message" \in DOMAIN error THEN error.message ELSE fallback

\* readViaGateway, lines 631-638: the timer is set and the fetch issued.
readViaGatewayStarts == [at |-> "fetch", timer |-> TRUE]

\* readViaGateway, lines 655-663: the catch block.
gatewayCatches(gatewayUrl, error) ==
  Returned(readViaGateway(gatewayUrl, [error |-> messageOf(error, "Unknown gateway error")]))

\* A variant of readViaGateway without the catch block.
gatewayFetchResolvesUncaught(gatewayUrl, response) ==
  IF ~response.ok
    THEN Threw([name |-> "Error", message |-> "Gateway returned status", code |-> "undefined"])
    ELSE [at |-> "text", timer |-> FALSE]

\* readViaGateway, lines 640-648: the fetch has resolved with `response`;
\* the timer is cleared, whatever the status.
gatewayFetchResolves(gatewayUrl, response) ==
  IF ~response.ok
    THEN gatewayCatches(gatewayUrl, [name |-> "Error", message |-> "Gateway returned status"])
    ELSE [at |-> "text", timer |-> FALSE]

\* readViaGateway, lines 649-653: response.text() has resolved.
gatewayTextResolves(gatewayUrl, text) == Returned(readViaGateway(gatewayUrl, [text |-> text]))

\* The timer set at line 632 fires: controller.abort() makes the fetch
\* reject with an AbortError.
AbortError == [name |-> "AbortError", message |-> "This operation was aborted"]
gatewayTimerFires(gatewayUrl) == gatewayCatches(gatewayUrl, AbortError)

\* readViaApi, lines 688-704: no timer is set; the name is resolved first
\* if the path is an /ipns/ path, else the content is read at once.
readViaApiStarts(path) ==
  IF startsWith(path, IpnsPrefix)
    THEN [at |-> "resolve", timer |-> FALSE]
    ELSE [at |-> "cat", timer |-> FALSE]

\* readViaApi, lines 734-739: the catch block.
apiCatches(apiUrl, error) ==
  Returned(readViaApi(apiUrl, [error |-> messageOf(error, "Unknown API error")]))

\* readViaApi, lines 706-708: the resolve fetch has resolved.
apiResolveResolves(apiUrl, response) ==
  IF ~response.ok
    THEN apiCatches(apiUrl, [name |-> "Error", message |-> "API resolve failed"])
    ELSE [at |-> "resolveJson", timer |-> FALSE]

\* readViaApi, lines 710-722: resolveResponse.json() has resolved with
\* `resolveData`, and the cat fetch is issued.
apiResolveJsonResolves(apiUrl, resolveData) ==
  IF ~Truthy(resolveData.Path)
    THEN apiCatches(apiUrl, [name |-> "Error", message |-> "API resolve failed: no path returned"])
    ELSE [at |-> "cat", timer |-> FALSE]

\* readViaApi, lines 724-726: the cat fetch has resolved.
apiCatResolves(apiUrl, response) ==
  IF ~response.ok
    THEN apiCatches(apiUrl, [name |-> "Error", message |-> "API cat failed"])
    ELSE [at |-> "text", timer |-> FALSE]

\* readViaApi, lines 728-732: response.text() has resolved.
apiTextResolves(apiUrl, text) == Returned(readViaApi(apiUrl, [text |-> text]))

\* readFromSources, lines 833-843: the tasks are started one after the other,
\* each running up to its first await, before Promise.all awaits them.
readFromSourcesStarts(sources, path) ==
  [ active |-> TRUE,
    gateway |-> IF "gateway" \in sources THEN readViaGatewayStarts ELSE NotRequested,
    api |-> IF "api" \in sources THEN readViaApiStarts(path) ELSE NotRequested,
    order |-> <<>> ]

\* A variant of Promise.all that hands the results over in the order in
\* which the tasks completed.
sourcesDataAsCompleted(ts) == [i \in 1..Len(ts.order) |-> ts[ts.order[i]].result]

\* Promise.all(tasks), line 843: the results in the order of the tasks.
sourcesData(ts) ==
  (IF ts.gateway.at # "none" THEN <<ts.gateway.result>> ELSE <<>>)
  \o (IF ts.api.at # "none" THEN <<ts.api.result>> ELSE <<>>)

InFlight(t) == t.at \notin {"none", "done", "threw"}

\* A variant in which the first error a source returns ends the round, the
\* other call being given up.
transportMovesFailFast(s, ts) ==
  IF \E src \in {"gateway", "api"} : ts[src].at = "done" /\ "error" \in DOMAIN ts[src].result
    THEN withRetrySettles(s, Rejected(OrbitportSDKError(
                                [text |-> "All sources failed", errors |-> <<>>],
                                ErrorCode("NETWORK_ERROR"))))
  ELSE IF \E src \in {"gateway", "api"} : InFlight(ts[src])
    THEN s
  ELSE withRetrySettles(s, decideRound(s.gb.request, sourcesData(ts)))

\* A transport call has moved on to `t`.  Promise.all rejects as soon as a
\* task rejects, and resolves once every task has returned; the function
\* handed to withRetry then goes on, and withRetry with its outcome.
transportMoves(s, ts) ==
  IF \E src \in {"gateway", "api"} : ts[src].at = "threw"
    THEN withRetrySettles(s, Rejected(ts[CHOOSE src \in {"gateway", "api"} : ts[src].at = "threw"].error))
  ELSE IF \E src \in {"gateway", "api"} : InFlight(ts[src])
    THEN s
  ELSE withRetrySettles(s, decideRound(s.gb.request, sourcesData(ts)))

\* What the transports' fetches may be answered with.
Responses == {[ok |-> TRUE], [ok |-> FALSE]}
Rejections == {[name |-> "TypeError", message |-> "fetch failed"], [thrown |-> "not an Error"]}
FetchTexts ==
  {NotJson, EmptyText}
  \cup {JsonBody(PreviousPath, [sequence |-> sequence] @@ Content(1, MaxLen)) :
          sequence \in {MaxSeq - 1, MaxSeq}}
ResolveData == {[Path |-> Undefined], [Path |-> CustomPath]}

FetchCalls ==
  { [ op |-> "getBeacon", config |-> c,
      request |-> [path |-> p, sources |-> s, enableComparison |-> e], options |-> o ] :
      c \in BeaconConfigs, p \in {BeaconPath, CustomPath, UnprefixedPath},
      s \in SourceSets, e \in BOOLEAN, o \in Retries }

InitFetch ==
  /\ call \in FetchCalls
  /\ pc = "start"
  /\ ipfsRequest = Undefined
  /\ trav = NoTrav
  /\ gb = NoGb
  /\ calls = NoCalls
  /\ hist = NoHist
  /\ ipfsResult = Undefined
  /\ transports = NoTransports
  /\ auth = NoAuth
  /\ sdk = NoSdk
  /\ outcome = Pending

\* beaconService.getBeacon(request, options) is called.
FetchGetBeacon ==
  /\ pc = "start"
  /\ LET n == getBeacon(Cur, call.request, "direct")
     IN /\ Settles(n)
        /\ transports' = IF n.pc = "fetch"
                           THEN readFromSourcesStarts(sourceList(call.request.sources), call.request.path)
                           ELSE transports

\* The transport call to `src` moves on to `t`.
Moves(src, t) ==
  LET ts == [transports EXCEPT ![src] = t,
                               !.order = IF t.at = "done" THEN Append(@, src) ELSE @]
  IN /\ transports' = ts
     /\ Settles(transportMoves(Cur, ts))

Suspended(src, at) == pc = "fetch" /\ transports.active /\ transports[src].at = at

\* The gateway's fetch resolves.
GatewayFetchResolves ==
  /\ Suspended("gateway", "fetch")
  /\ \E response \in Responses :
       Moves("gateway", gatewayFetchResolves(call.config.ipfs.gateway, response))

\* The gateway's response.text() resolves.
GatewayTextResolves ==
  /\ Suspended("gateway", "text")
  /\ \E text \in FetchTexts :
       Moves("gateway", gatewayTextResolves(call.config.ipfs.gateway, text))

\* The gateway's fetch, or its response.text(), rejects.
GatewayRejects ==
  /\ Suspended("gateway", "fetch") \/ Suspended("gateway", "text")
  /\ \E error \in Rejections :
       Moves("gateway", gatewayCatches(call.config.ipfs.gateway, error))

\* The gateway's timer fires.
GatewayTimerFires ==
  /\ pc = "fetch" /\ transports.active /\ transports.gateway.timer
  /\ Moves("gateway", gatewayTimerFires(call.config.ipfs.gateway))

\* The api's resolve fetch resolves.
ApiResolveResolves ==
  /\ Suspended("api", "resolve")
  /\ \E response \in Responses :
       Moves("api", apiResolveResolves(call.config.ipfs.apiUrl, response))

\* The api's resolveResponse.json() resolves.
ApiResolveJsonResolves ==
  /\ Suspended("api", "resolveJson")
  /\ \E resolveData \in ResolveData :
       Moves("api", apiResolveJsonResolves(call.config.ipfs.apiUrl, resolveData))

\* The api's cat fetch resolves.
ApiCatResolves ==
  /\ Suspended("api", "cat")
  /\ \E response \in Responses :
       Moves("api", apiCatResolves(call.config.ipfs.apiUrl, response))

\* The api's response.text() resolves.
ApiTextResolves ==
  /\ Suspended("api", "text")
  /\ \E text \in FetchTexts :
       Moves("api", apiTextResolves(call.config.ipfs.apiUrl, text))

\* One of the api's fetches, or the reading of one of its bodies, rejects.
ApiRejects ==
  /\ pc = "fetch" /\ transports.active /\ InFlight(transports.api)
  /\ \E error \in Rejections :
       Moves("api", apiCatches(call.config.ipfs.apiUrl, error))

\* The backoff delay of withRetry elapses and the next round is issued.
FetchBackoffElapses ==
  /\ pc = "sleep"
  /\ Settles(nextAttempt(Cur))
  /\ transports' = readFromSourcesStarts(sourceList(gb.request.sources), gb.request.path)

NextFetch ==
  \/ FetchGetBeacon
  \/ GatewayFetchResolves
  \/ GatewayTextResolves
  \/ GatewayRejects
  \/ GatewayTimerFires
  \/ ApiResolveResolves
  \/ ApiResolveJsonResolves
  \/ ApiCatResolves
  \/ ApiTextResolves
  \/ ApiRejects
  \/ FetchBackoffElapses

SpecFetch == InitFetch /\ [][NextFetch]_vars

\* The timers of the event loop fire: a timer that is set fires unless it
\* is cleared, and a sleep ends.  Nothing makes a server answer.
FairSpecFetch ==
  SpecFetch /\ WF_vars(GatewayTimerFires) /\ WF_vars(FetchBackoffElapses)

(***************************************************************************)
(* getBeaconWithFallback (src/unnamed/part_000:969-1010), its getBeacon    *)
(* calls followed transport call by transport call.                        *)
(***************************************************************************)
FallbackConfigs ==
  { [ipfs |-> urls @@ e] :
      urls \in IpfsUrls,
      e \in {<<>>, [enableFallback |-> TRUE], [enableFallback |-> FALSE]} }

FallbackCalls ==
  { [ op |-> "getBeaconWithFallback", config |-> c, path |-> p, options |-> o ] :
      c \in FallbackConfigs, p \in {BeaconPath, CustomPath, UnprefixedPath}, o \in Retries }

InitFallback ==
  /\ call \in FallbackCalls
  /\ pc = "start"
  /\ ipfsRequest = Undefined
  /\ trav = NoTrav
  /\ gb = NoGb
  /\ calls = NoCalls
  /\ hist = NoHist
  /\ ipfsResult = Undefined
  /\ transports = NoTransports
  /\ auth = NoAuth
  /\ sdk = NoSdk
  /\ outcome = Pending

\* The state `n` follows, its round's transport calls started if `n` is at
\* the start of a getBeacon call's first round.
Enters(n) ==
  /\ Settles(n)
  /\ transports' = IF n.pc = "fetch"
                     THEN readFromSourcesStarts(sourceList(n.gb.request.sources), n.gb.request.path)
                     ELSE transports

\* beaconService.getBeaconWithFallback(path, options) is called.
FallbackStarts ==
  /\ pc = "start"
  /\ Enters(getBeaconWithFallback(Cur, call.config.ipfs, call.path))

\* The awaiting getBeaconWithFallback resumes in its catch block.
FallbackCatches ==
  /\ pc = "catch"
  /\ Enters(fallbackCatches(Cur, call.path))

NextFallback ==
  \/ FallbackStarts
  \/ FallbackCatches
  \/ GatewayFetchResolves
  \/ GatewayTextResolves
  \/ GatewayRejects
  \/ GatewayTimerFires
  \/ ApiResolveResolves
  \/ ApiResolveJsonResolves
  \/ ApiCatResolves
  \/ ApiTextResolves
  \/ ApiRejects
  \/ FetchBackoffElapses

SpecFallback == InitFallback /\ [][NextFallback]_vars

(***************************************************************************)
(* compareBeaconData alone (src/unnamed/part_000:783-819), called with     *)
(* every pair of a record or null.                                         *)
(***************************************************************************)
CompareRecords == {parseBeacon(b).value : b \in Beacons} \cup {Null}

InitCompare ==
  /\ call \in { [op |-> "compareBeaconData", gateway |-> gateway, api |-> api] :
                   gateway \in CompareRecords, api \in CompareRecords }
  /\ pc = "compare"
  /\ ipfsRequest = Undefined
  /\ trav = NoTrav
  /\ gb = NoGb
  /\ calls = NoCalls
  /\ hist = NoHist
  /\ ipfsResult = Undefined
  /\ transports = NoTransports
  /\ auth = NoAuth
  /\ sdk = NoSdk
  /\ outcome = Pending

\* compareBeaconData(gateway, api) returns.
Compare ==
  /\ pc = "compare"
  /\ pc' = "done"
  /\ outcome' = Resolved(compareBeaconData(call.gateway, call.api))
  /\ UNCHANGED <<call, ipfsRequest, trav, gb, calls, hist, ipfsResult, transports, auth, sdk>>

NextCompare == Compare

SpecCompare == InitCompare /\ [][NextCompare]_vars

(***************************************************************************)
(* sanitizeCTRNGRequest alone (src/src/utils/validation.ts:319-344),       *)
(* called with every request: each key absent or present, with a valid or  *)
(* an invalid value; the empty string is a beaconPath among them.          *)
(***************************************************************************)
SanitizeRequests ==
  { a @@ b @@ c @@ d :
      a \in Opt("src", {Str("trng"), Str("rng"), Str("ipfs"), Str("other")}),
      b \in Opt("beaconPath", {CustomPath, UnprefixedPath, Path(<<>>)}),
      c \in Opt("block", {Str("INF")} \cup {Num(n) : n \in -1..MaxSeq} \cup NonIntegers),
      d \in Opt("index", {Num(n) : n \in -1..MaxIndex} \cup NonIntegers) }

InitSanitize ==
  /\ call \in {[op |-> "sanitizeCTRNGRequest", request |-> r] : r \in SanitizeRequests}
  /\ pc = "sanitize"
  /\ ipfsRequest = Undefined
  /\ trav = NoTrav
  /\ gb = NoGb
  /\ calls = NoCalls
  /\ hist = NoHist
  /\ ipfsResult = Undefined
  /\ transports = NoTransports
  /\ auth = NoAuth
  /\ sdk = NoSdk
  /\ outcome = Pending

\* sanitizeCTRNGRequest(request) returns or throws.
Sanitize ==
  /\ pc = "sanitize"
  /\ pc' = "done"
  /\ outcome' = sanitizeCTRNGRequest(call.request)
  /\ UNCHANGED <<call, ipfsRequest, trav, gb, calls, hist, ipfsResult, transports, auth, sdk>>

NextSanitize == Sanitize

SpecSanitize == InitSanitize /\ [][NextSanitize]_vars

(***************************************************************************)
(* parseBeacon alone (src/unnamed/part_000:748-775), called with every     *)
(* kind of body: no JSON, a JSON value that is no object, and objects with *)
(* each of previous, data, sequence, timestamp and ctrng absent or present.*)
(***************************************************************************)
ParseData ==
  {Undefined, Null, Num(1), Str("data"), Arr(<<>>)}
  \cup { a @@ b @@ c :
           a \in Opt("sequence", 0..MaxSeq),
           b \in Opt("timestamp", {Num(1), Str("2024")}),
           c \in Opt("ctrng", {Arr(<<>>), Arr(ctrngOf(1, MaxLen)), Num(7), Null}) }

ParseBodies ==
  {NotJson, EmptyText, JsonScalar}
  \cup { [json |-> "object"] @@ a @@ b :
           a \in Opt("previous", {Null, PreviousPath}),
           b \in {<<>>} \cup {[data |-> d] : d \in ParseData} }

InitParse ==
  /\ call \in {[op |-> "parseBeacon", jsonText |-> b] : b \in ParseBodies}
  /\ pc = "parse"
  /\ ipfsRequest = Undefined
  /\ trav = NoTrav
  /\ gb = NoGb
  /\ calls = NoCalls
  /\ hist = NoHist
  /\ ipfsResult = Undefined
  /\ transports = NoTransports
  /\ auth = NoAuth
  /\ sdk = NoSdk
  /\ outcome = Pending

\* parseBeacon(jsonText) returns or throws.
Parse ==
  /\ pc = "parse"
  /\ pc' = "done"
  /\ outcome' = parseBeacon(call.jsonText)
  /\ UNCHANGED <<call, ipfsRequest, trav, gb, calls, hist, ipfsResult, transports, auth, sdk>>

NextParse == Parse

SpecParse == InitParse /\ [][NextParse]_vars

(***************************************************************************)
(* MemoryTokenStorage (src/unnamed/part_000:76-97) and the clock: set,     *)
(* clear and get in any order, with time passing in between.  Date.now()   *)
(* is in milliseconds, expiresAt in seconds.                               *)
(***************************************************************************)
MaxExpiry == 2     \* expiresAt is 0..MaxExpiry seconds; the clock reaches MaxExpiry + 1
MsPerSecond == 1000

\* A variant that compares the clock with expiresAt as it is.
memoryGetUnscaled(storage, now) ==
  IF ~Truthy(storage.token) \/ now >= storage.expiresAt
    THEN [storage |-> [storage EXCEPT !.token = Null], returns |-> Null]
  ELSE [storage |-> storage, returns |-> storage.token]

\* get(), lines 80-86: the storage it leaves and the value it returns.
memoryGet(storage, now) ==
  IF ~Truthy(storage.token) \/ now >= storage.expiresAt * MsPerSecond
    THEN [storage |-> [storage EXCEPT !.token = Null], returns |-> Null]
  ELSE [storage |-> storage, returns |-> storage.token]

\* set(token, expiresAt), lines 88-91.
memorySet(storage, token, expiresAt) == [token |-> token, expiresAt |-> expiresAt]

\* clear(), lines 93-96.
memoryClear(storage) == [token |-> Null, expiresAt |-> 0]

StorageTokens == {Str("token"), Str("other")}
NotCalled == [called |-> FALSE]

\* A new MemoryTokenStorage (lines 77-78) at time 0; nothing was set.
InitStorage ==
  /\ call = [op |-> "MemoryTokenStorage"]
  /\ pc = "idle"
  /\ ipfsRequest = Undefined
  /\ trav = NoTrav
  /\ gb = NoGb
  /\ calls = NoCalls
  /\ hist = NoHist
  /\ ipfsResult = Undefined
  /\ transports = NoTransports
  /\ auth = [ storage |-> [token |-> Null, expiresAt |-> 0], now |-> 0,
              lastSet |-> Null, cleared |-> FALSE, got |-> NotCalled ]
  /\ sdk = NoSdk
  /\ outcome = Pending

StorageStep(a) ==
  /\ auth' = a
  /\ UNCHANGED <<call, pc, ipfsRequest, trav, gb, calls, hist, ipfsResult, transports, sdk, outcome>>

\* storage.set(token, expiresAt) is called.
StorageSet ==
  /\ pc = "idle"
  /\ \E token \in StorageTokens, expiresAt \in 0..MaxExpiry :
    StorageStep([auth EXCEPT !.storage = memorySet(@, token, expiresAt),
                             !.lastSet = [token |-> token, expiresAt |-> expiresAt],
                             !.cleared = FALSE, !.got = NotCalled])

\* storage.clear() is called.
StorageClear ==
  /\ pc = "idle"
  /\ StorageStep([auth EXCEPT !.storage = memoryClear(@), !.cleared = TRUE, !.got = NotCalled])

\* storage.get() is called.
StorageGet ==
  /\ pc = "idle"
  /\ LET r == memoryGet(auth.storage, auth.now)
     IN StorageStep([auth EXCEPT !.storage = r.storage, !.got = r.returns])

\* Half a second passes.
TimePasses ==
  /\ auth.now < (MaxExpiry + 1) * MsPerSecond
  /\ StorageStep([auth EXCEPT !.now = @ + MsPerSecond \div 2, !.got = NotCalled])

NextStorage ==
  \/ StorageSet
  \/ StorageClear
  \/ StorageGet
  \/ TimePasses

SpecStorage == InitStorage /\ [][NextStorage]_vars

(***************************************************************************)
(* AuthService (src/unnamed/part_000:270-470): callers of getValidToken,   *)
(* the acquisitions they start or join, and the token request of each      *)
(* acquisition.  auth.tokenPromise is 0 for undefined, else the number of  *)
(* the acquisition whose promise the field holds.                          *)
(***************************************************************************)
MaxCallers == 3           \* the callers of getValidToken, each calling once
StandardMaxAttempts == 3  \* RETRY_STRATEGIES.standard.maxAttempts
BufferSeconds == 60       \* isTokenExpired's default bufferSeconds
Callers == 1..MaxCallers

\* A JWT whose payload has the given exp (seconds).
Jwt(s, exp) == [type |-> "string", s |-> s, exp |-> exp]

\* isTokenExpired (validation.ts:230-251) of a well-formed JWT.
isTokenExpired(token, now) == token.exp <= now + BufferSeconds

\* What the fetch of the token endpoint rejects with: the TypeError of a
\* failed connection, the AbortError of the timeout (a DOMException, whose
\* code is the number 20), and an error of the host's fetch that carries one
\* of the SDK's codes.  `code` is what reading error.code gives.
FetchTypeError == [name |-> "TypeError", message |-> {"fetch", "failed"}, code |-> "undefined"]
FetchAbortError == [name |-> "AbortError", message |-> {"aborted"}, code |-> "20"]
FetchSdkError == OrbitportSDKError({"service", "unavailable"}, ErrorCode("SERVICE_UNAVAILABLE"))
TokenRejections == {FetchTypeError, FetchAbortError, FetchSdkError}

\* What the token endpoint answers: ok and the parsed body.
TokenAnswers ==
  { [ok |-> TRUE, body |-> [access_token |-> Jwt("fresh", 3600)]],
    [ok |-> TRUE, body |-> [token_type |-> Str("Bearer")]],
    [ok |-> FALSE, body |-> [error_code |-> Str("RATE_LIMITED")]] }

NewAcquisition ==
  [at |-> "storageGet", attempt |-> 0, fetches |-> 0, sleeps |-> 0,
   fetchFailed |-> FALSE, held |-> Undefined, result |-> Pending]

\* A variant of getValidToken without the test of line 294: every call
\* starts an acquisition.
getValidTokenUnshared(a, c) ==
  LET id == Len(a.acqs) + 1
  IN [a EXCEPT !.acqs = Append(@, NewAcquisition), !.tokenPromise = id,
               !.callers[c] = [at |-> "awaiting", promise |-> id, result |-> Pending]]

\* getValidToken, lines 292-301: caller c returns the promise in flight, or
\* starts _getValidToken and awaits its promise.
getValidToken(a, c) ==
  IF a.tokenPromise # 0
    THEN [a EXCEPT !.callers[c] = [at |-> "joined", promise |-> a.tokenPromise, result |-> Pending]]
  ELSE LET id == Len(a.acqs) + 1
       IN [a EXCEPT !.acqs = Append(@, NewAcquisition), !.tokenPromise = id,
                    !.callers[c] = [at |-> "awaiting", promise |-> id, result |-> Pending]]

\* The promise of _getValidToken settles.
acquisitionSettles(a, id, result) ==
  [a EXCEPT !.acqs[id].at = "settled", !.acqs[id].result = result]

\* _getValidToken's catch, lines 350-358: the error is kept while
\* storage.clear() runs.
acquisitionFails(a, id, error) ==
  [a EXCEPT !.acqs[id].at = "clear", !.acqs[id].held = error]

\* _getValidToken, lines 314-330: storage.get() resolved; an unexpired token
\* is returned, otherwise requestNewToken makes withRetry's first attempt.
storageGetResolves(a, id) ==
  LET existingToken == a.stored
  IN IF Truthy(existingToken) /\ ~isTokenExpired(existingToken, a.now)
       THEN acquisitionSettles(a, id, Resolved(existingToken))
     ELSE [a EXCEPT !.acqs[id].at = "fetch", !.acqs[id].attempt = 1, !.acqs[id].fetches = 1]

\* requestNewToken, lines 416-440, and _getValidToken, lines 332-340: the
\* fetch resolved and withRetry returned the response.
tokenFetchResolves(a, id, answer) ==
  IF ~answer.ok THEN acquisitionFails(a, id, createErrorFromAPIResponse(answer.body))
  ELSE IF ~Truthy(Get(answer.body, "access_token"))
    THEN acquisitionFails(a, id, OrbitportSDKError([text |-> "Invalid token response: missing access_token"],
                                                   ErrorCode("INVALID_RESPONSE")))
  ELSE [a EXCEPT !.acqs[id].at = "storageSet", !.acqs[id].held = answer.body.access_token]

\* requestNewToken's catch, lines 441-456: the error that leaves it.
tokenRequestError(error) ==
  IF error.name = "OrbitportSDKError" THEN error
  ELSE IF error.name = "AbortError"
    THEN OrbitportSDKError([text |-> "Token request timeout"], ErrorCode("TIMEOUT"))
  ELSE createNetworkError(error)

\* A variant of withRetry's catch that retries every error.
tokenFetchRejectsRetryingAll(a, id, error) ==
  IF a.acqs[id].attempt = StandardMaxAttempts
    THEN acquisitionFails([a EXCEPT !.acqs[id].fetchFailed = TRUE], id, tokenRequestError(error))
  ELSE [a EXCEPT !.acqs[id].at = "sleep"]

\* withRetry's catch, retry.ts:70-90, around the fetch of lines 389-404: an
\* error that is not retryable, or the last attempt's, is thrown to
\* requestNewToken's catch; otherwise the backoff delay starts.
tokenFetchRejects(a, id, error) ==
  IF ~isRetryableError(error) \/ a.acqs[id].attempt = StandardMaxAttempts
    THEN acquisitionFails([a EXCEPT !.acqs[id].fetchFailed = TRUE], id, tokenRequestError(error))
  ELSE [a EXCEPT !.acqs[id].at = "sleep"]

\* withRetry, retry.ts:88-89 and 66: the delay elapsed, the next attempt
\* calls fetch again.
tokenBackoffElapses(a, id) ==
  [a EXCEPT !.acqs[id].at = "fetch", !.acqs[id].attempt = @ + 1,
            !.acqs[id].fetches = @ + 1, !.acqs[id].sleeps = @ + 1]

\* _getValidToken, lines 340-349: storage.set resolved, the token is returned.
storageSetResolves(a, id) ==
  acquisitionSettles([a EXCEPT !.stored = a.acqs[id].held], id, Resolved(a.acqs[id].held))

\* _getValidToken, lines 356-357: storage.clear resolved, the error is thrown.
storageClearResolves(a, id) ==
  acquisitionSettles([a EXCEPT !.stored = Null], id, Rejected(a.acqs[id].held))

\* getValidToken, lines 300-305: the awaited promise settled; the caller
\* returns or throws, and finally sets tokenPromise to undefined.
starterResumes(a, c) ==
  [a EXCEPT !.callers[c].at = "done", !.callers[c].result = a.acqs[a.callers[c].promise].result,
            !.tokenPromise = 0]

\* The promise returned at line 295 settled for a caller that joined it.
joinerSettles(a, c) ==
  [a EXCEPT !.callers[c].at = "done", !.callers[c].result = a.acqs[a.callers[c].promise].result]

\* What the storage holds at first: nothing, a token about to expire, a
\* token that is good for an hour.
StoredAtFirst == {Null, Jwt("old", 30), Jwt("stored", 3600)}

InitAuth ==
  /\ call = [op |-> "getValidToken"]
  /\ pc = "idle"
  /\ ipfsRequest = Undefined
  /\ trav = NoTrav
  /\ gb = NoGb
  /\ calls = NoCalls
  /\ hist = NoHist
  /\ ipfsResult = Undefined
  /\ transports = NoTransports
  /\ \E stored \in StoredAtFirst :
       auth = [ stored |-> stored, now |-> 0, tokenPromise |-> 0, acqs |-> <<>>,
                callers |-> [c \in Callers |-> [at |-> "idle", promise |-> 0, result |-> Pending]] ]
  /\ sdk = NoSdk
  /\ outcome = Pending

AuthStep(a) ==
  /\ auth' = a
  /\ UNCHANGED <<call, pc, ipfsRequest, trav, gb, calls, hist, ipfsResult, transports, sdk, outcome>>

Acquisitions == 1..Len(auth.acqs)

\* A caller calls getValidToken().
GetValidToken ==
  /\ pc = "idle"
  /\ \E c \in Callers :
       /\ auth.callers[c].at = "idle"
       /\ AuthStep(getValidToken(auth, c))

StorageGetResolves ==
  /\ pc = "idle"
  /\ \E id \in Acquisitions :
       /\ auth.acqs[id].at = "storageGet"
       /\ AuthStep(storageGetResolves(auth, id))

TokenFetchResolves ==
  /\ pc = "idle"
  /\ \E id \in Acquisitions, answer \in TokenAnswers :
       /\ auth.acqs[id].at = "fetch"
       /\ AuthStep(tokenFetchResolves(auth, id, answer))

TokenFetchRejects ==
  /\ pc = "idle"
  /\ \E id \in Acquisitions, error \in TokenRejections :
       /\ auth.acqs[id].at = "fetch"
       /\ AuthStep(tokenFetchRejects(auth, id, error))

TokenBackoffElapses ==
  /\ pc = "idle"
  /\ \E id \in Acquisitions :
       /\ auth.acqs[id].at = "sleep"
       /\ AuthStep(tokenBackoffElapses(auth, id))

StorageSetResolves ==
  /\ pc = "idle"
  /\ \E id \in Acquisitions :
       /\ auth.acqs[id].at = "storageSet"
       /\ AuthStep(storageSetResolves(auth, id))

StorageClearResolves ==
  /\ pc = "idle"
  /\ \E id \in Acquisitions :
       /\ auth.acqs[id].at = "clear"
       /\ AuthStep(storageClearResolves(auth, id))

StarterResumes ==
  /\ pc = "idle"
  /\ \E c \in Callers :
       /\ auth.callers[c].at = "awaiting"
       /\ auth.acqs[auth.callers[c].promise].at = "settled"
       /\ AuthStep(starterResumes(auth, c))

JoinerSettles ==
  /\ pc = "idle"
  /\ \E c \in Callers :
       /\ auth.callers[c].at = "joined"
       /\ auth.acqs[auth.callers[c].promise].at = "settled"
       /\ AuthStep(joinerSettles(auth, c))

NextAuth ==
  \/ GetValidToken
  \/ StorageGetResolves
  \/ TokenFetchResolves
  \/ TokenFetchRejects
  \/ TokenBackoffElapses
  \/ StorageSetResolves
  \/ StorageClearResolves
  \/ StarterResumes
  \/ JoinerSettles

SpecAuth == InitAuth /\ [][NextAuth]_vars

(***************************************************************************)
(* Properties of getValidToken (under SpecAuth).                           *)
(***************************************************************************)
AcquiringNow == {id \in Acquisitions : auth.acqs[id].at # "settled"}
CallMade(c) == auth.callers[c].at = "idle" /\ auth'.callers[c].at # "idle"
StartsFresh(c) ==
  /\ Len(auth'.acqs) = Len(auth.acqs) + 1
  /\ auth'.callers[c].promise = Len(auth'.acqs)
  /\ auth'.acqs[Len(auth'.acqs)].at = "storageGet"
Joins(c, id) ==
  /\ auth'.acqs = auth.acqs
  /\ auth'.callers[c].promise = id
StartingCallReturned == \A c \in Callers : auth.callers[c].at # "awaiting"
SettlesAsItsAcquisition ==
  \A c \in Callers :
    auth.callers[c].at = "done" =>
      auth.callers[c].result = auth.acqs[auth.callers[c].promise].result

\* C36 as stated: at most one acquisition is in flight; a call made while one
\* is in flight starts none and settles as that one does; a call made when
\* none is in flight (the last one has settled) starts a fresh acquisition.
C36_FreshAfterSettlement ==
  /\ [](Cardinality(AcquiringNow) <= 1 /\ SettlesAsItsAcquisition)
  /\ [][\A c \in Callers :
          CallMade(c) =>
            IF AcquiringNow # {} THEN \E id \in AcquiringNow : Joins(c, id)
            ELSE StartsFresh(c)]_vars

\* C36, amended: at most one acquisition is in flight; a call made while one
\* is in flight, or after it has settled and before the call that started it
\* has returned, starts none and settles as that acquisition does; a call
\* made after the starting call has returned starts a fresh acquisition.
C36_OneAcquisitionPerStartingCall ==
  /\ [](Cardinality(AcquiringNow) <= 1 /\ SettlesAsItsAcquisition)
  /\ [][\A c \in Callers :
          CallMade(c) =>
            IF AcquiringNow # {} THEN \E id \in AcquiringNow : Joins(c, id)
            ELSE IF StartingCallReturned THEN StartsFresh(c)
            ELSE Joins(c, Len(auth.acqs))]_vars

\* One call started an acquisition, a second joined it and both settled with
\* its error; a third call, made after the first returned, started another.
C36_Witness ==
  /\ Len(auth.acqs) = 2
  /\ auth.acqs[1].result.status = "rejected"
  /\ \E c1, c2, c3 \in Callers :
       /\ auth.callers[c1].at = "done" /\ auth.callers[c1].promise = 1
       /\ auth.callers[c2].at = "done" /\ auth.callers[c2].promise = 1
       /\ c1 # c2
       /\ auth.callers[c2].result = auth.acqs[1].result
       /\ auth.callers[c3].promise = 2

\* The acquisitions whose token request ended with a failed fetch that
\* requestNewToken reports as a connection failure or a timeout.
FailedOnTheNetwork ==
  {id \in Acquisitions :
     /\ auth.acqs[id].at \in {"clear", "settled"}
     /\ auth.acqs[id].fetchFailed
     /\ auth.acqs[id].held.code \in {ErrorCode("CONNECTION_FAILED"), ErrorCode("TIMEOUT")}}

\* C37: when the fetch of the token endpoint fails with a network error or
\* times out, the token request has made 3 attempts, with a backoff delay
\* between every two of them, before the acquisition rejects.
C37_TokenRequestIsRetried ==
  \A id \in FailedOnTheNetwork :
    /\ auth.acqs[id].fetches = StandardMaxAttempts
    /\ auth.acqs[id].sleeps = StandardMaxAttempts - 1

\* A call of getValidToken rejected with a connection failure or a timeout
\* after a single fetch and no delay.
C37_Witness ==
  \E c \in Callers :
    /\ auth.callers[c].at = "done"
    /\ auth.callers[c].result.status = "rejected"
    /\ auth.callers[c].promise \in FailedOnTheNetwork
    /\ auth.acqs[auth.callers[c].promise].fetches = 1
    /\ auth.acqs[auth.callers[c].promise].sleeps = 0

(***************************************************************************)
(* OrbitportSDK (src/unnamed/part_001:62-222): the configuration objects   *)
(* of the SDK and of its services, updateConfig and the configuration a    *)
(* random() call consults.  Of a configuration the fields random() reads   *)
(* are kept: clientId, clientSecret, apiUrl, timeout and ipfs.             *)
(***************************************************************************)
MaxUpdates == 2   \* the calls of updateConfig

DefaultApiUrl == Str("https://op.spacecomputer.io")
DefaultTimeout == Num(30000)
DefaultBeaconPath == Path(<<IpnsPrefix, "k2k4r8pigrw8i34z63om8f015tt5igdq0c46xupq8spp1bogt35k5vhe">>)
DefaultIpfsConfig ==
  [ gateway |-> Str("https://ipfs.io"), apiUrl |-> Str("http://65.109.2.230:5001"),
    timeout |-> DefaultTimeout, enableFallback |-> TRUE, defaultBeaconPath |-> DefaultBeaconPath ]

\* { ...a, ...b }
Spread(a, b) == b @@ a

\* isValidUrl, over the URLs configurations are given.
WellFormedUrls == {"https://op.spacecomputer.io", "https://staging.example"}
isValidUrl(url) == url.s \in WellFormedUrls

\* validateConfig (validation.ts:17-90): TRUE when no error is found.  The
\* strings given as credentials have no surrounding white space.
validateConfig(config) ==
  LET clientId == Get(config, "clientId")
      clientSecret == Get(config, "clientSecret")
      apiUrl == Get(config, "apiUrl")
      timeout == Get(config, "timeout")
  IN /\ clientId # Undefined => (clientId.type = "string" /\ clientId.s # "")
     /\ clientSecret # Undefined => (clientSecret.type = "string" /\ clientSecret.s # "")
     /\ Truthy(clientId) = Truthy(clientSecret)
     /\ Truthy(apiUrl) => (apiUrl.type = "string" /\ isValidUrl(apiUrl))
     /\ timeout # Undefined => (timeout.type = "number" /\ timeout.n > 0)

\* sanitizeConfig (validation.ts:256-282) of a configuration that is valid.
sanitizeConfig(config) ==
  [ clientId |-> Get(config, "clientId"),
    clientSecret |-> Get(config, "clientSecret"),
    apiUrl |-> Or(Get(config, "apiUrl"), DefaultApiUrl),
    timeout |-> Or(Get(config, "timeout"), DefaultTimeout),
    ipfs |-> Spread(DefaultIpfsConfig, IF "ipfs" \in DOMAIN config THEN config.ipfs ELSE <<>>) ]

\* The constructor, part_001:74-97: the services are given the sanitized
\* configuration; CTRNGService keeps it as its config (ctrng.ts:39).
newSdk(config) ==
  LET sanitized == sanitizeConfig(config)
  IN [ active |-> TRUE, config |-> sanitized, authConfig |-> sanitized,
       ctrngConfig |-> sanitized, ipfsConfig |-> sanitized.ipfs,
       updates |-> 0, threw |-> FALSE, used |-> NotCalled ]

\* A variant of updateConfig that hands the new configuration to
\* CTRNGService as well.
updateConfigEverywhere(k, newConfig) ==
  LET merged == Spread(k.config, newConfig)
  IN IF ~validateConfig(merged)
       THEN [k EXCEPT !.updates = @ + 1, !.threw = TRUE, !.used = NotCalled]
     ELSE LET updatedConfig == sanitizeConfig(merged)
          IN [k EXCEPT !.updates = @ + 1, !.threw = FALSE, !.used = NotCalled,
                       !.config = updatedConfig,
                       !.authConfig = Spread(@, updatedConfig),
                       !.ctrngConfig = updatedConfig,
                       !.ipfsConfig = IF "ipfs" \in DOMAIN newConfig
                                        THEN Spread(@, newConfig.ipfs) ELSE @]

\* updateConfig, part_001:205-222: sanitizeConfig throws for an invalid
\* configuration; otherwise the SDK's config is replaced by a new object,
\* AuthService merges it into its own (part_000:542-544) and, when the update
\* has an ipfs part, the beacon service merges that part (part_000:1155-1172).
\* CTRNGService's config field is not assigned.
updateConfig(k, newConfig) ==
  LET merged == Spread(k.config, newConfig)
  IN IF ~validateConfig(merged)
       THEN [k EXCEPT !.updates = @ + 1, !.threw = TRUE, !.used = NotCalled]
     ELSE LET updatedConfig == sanitizeConfig(merged)
          IN [k EXCEPT !.updates = @ + 1, !.threw = FALSE, !.used = NotCalled,
                       !.config = updatedConfig,
                       !.authConfig = Spread(@, updatedConfig),
                       !.ipfsConfig = IF "ipfs" \in DOMAIN newConfig
                                        THEN Spread(@, newConfig.ipfs) ELSE @]

\* What random() reads of a configuration (ctrng.ts:58, 74, 94, 151, 264):
\* whether it has credentials, the API's URL, the timeout and the default
\* beacon path.
consulted(config) ==
  [ viaApi |-> hasCredentials(config), apiUrl |-> config.apiUrl,
    timeout |-> config.timeout, defaultBeaconPath |-> config.ipfs.defaultBeaconPath ]

\* sdk.ctrng.random() runs on CTRNGService's config.
sdkRandom(k) == [k EXCEPT !.used = [called |-> TRUE, config |-> consulted(k.ctrngConfig)]]

SdkCredentials ==
  { [clientId |-> Str("id"), clientSecret |-> Str("secret")],
    [clientId |-> Undefined, clientSecret |-> Undefined],
    [clientId |-> Str("other")],
    [clientId |-> Str("")] }

\* The configurations the SDK is built with and the updates it is given.
ConfigUpdates ==
  { a @@ b @@ c @@ d :
      a \in {<<>>} \cup SdkCredentials,
      b \in Opt("apiUrl", {Str("https://staging.example"), Str("staging")}),
      c \in Opt("timeout", {Num(60000), Num(0)}),
      d \in Opt("ipfs", {[defaultBeaconPath |-> CustomPath], [gateway |-> Str("https://gateway.example")]}) }

InitSdk ==
  /\ call = [op |-> "OrbitportSDK"]
  /\ pc = "idle"
  /\ ipfsRequest = Undefined
  /\ trav = NoTrav
  /\ gb = NoGb
  /\ calls = NoCalls
  /\ hist = NoHist
  /\ ipfsResult = Undefined
  /\ transports = NoTransports
  /\ auth = NoAuth
  /\ \E config \in {c \in ConfigUpdates : validateConfig(c)} : sdk = newSdk(config)
  /\ outcome = Pending

SdkStep(k) ==
  /\ sdk' = k
  /\ UNCHANGED <<call, pc, ipfsRequest, trav, gb, calls, hist, ipfsResult, transports, auth, outcome>>

\* sdk.updateConfig(newConfig) is called.
UpdateConfig ==
  /\ sdk.updates < MaxUpdates
  /\ \E newConfig \in ConfigUpdates : SdkStep(updateConfig(sdk, newConfig))

\* sdk.ctrng.random() is called.
SdkRandom ==
  /\ pc = "idle"
  /\ SdkStep(sdkRandom(sdk))

NextSdk ==
  \/ UpdateConfig
  \/ SdkRandom

SpecSdk == InitSdk /\ [][NextSdk]_vars

(***************************************************************************)
(* Properties of updateConfig (under SpecSdk).                             *)
(***************************************************************************)
\* C39: after any sequence of updateConfig calls, a random() call uses the
\* updated configuration: the apiUrl, the timeout, the credentials (and so
\* the decision between API and beacon) and the default beacon path that
\* CTRNGService consults are those of the SDK's current configuration.
C39_RandomUsesTheCurrentConfiguration ==
  sdk.used.called => sdk.used.config = consulted(sdk.config)

\* updateConfig has replaced the SDK's apiUrl, timeout, credentials and
\* default beacon path, and the random() call that followed consulted the
\* values the SDK was built with.
C39_Witness ==
  /\ sdk.updates > 0 /\ ~sdk.threw
  /\ sdk.used.called
  /\ sdk.used.config.apiUrl # sdk.config.apiUrl
  /\ sdk.used.config.timeout # sdk.config.timeout
  /\ sdk.used.config.viaApi # hasCredentials(sdk.config)
  /\ sdk.used.config.defaultBeaconPath # sdk.config.ipfs.defaultBeaconPath

(***************************************************************************)
(* Properties of the source decision of random() (under Spec).             *)
(***************************************************************************)
IsRandom == call.op = "random"
CredentialsConfigured == {"clientId", "clientSecret"} \subseteq DOMAIN call.config
RequestsBeacon == "src" \in DOMAIN call.request /\ call.request.src = Str("ipfs")
RequestsApi == "src" \notin DOMAIN call.request \/ call.request.src \in {Str("trng"), Str("rng")}

\* The decimal texts of the first value of the beacons that have one.
FirstValues ==
  { toString(parseBeacon(b).value.ctrng[1]) :
      b \in {b \in Beacons : parseBeacon(b).value.ctrng # <<>>} }

FallbackFailureTexts ==
  { "All sources failed", "No valid beacon data found from any source",
    "No cTRNG values found in beacon data",
    "No beacon path provided and no default beacon path configured",
    "Invalid path: must start with /ipns/ or /ipfs/" }

\* C33: within one call of random() at most one request goes to the
\* centralized API, whatever options.retries is, and the beacon pipeline is
\* entered at most once; once it has been entered, no token is asked for and
\* no request goes to the API; and when the pipeline entered after a failure
\* of the API fails too, random() rejects with the pipeline's error, not with
\* the API's.
C33_FallbackIsOneShot ==
  /\ [](IsRandom =>
          /\ calls.apiFetch <= 1 /\ calls.getToken <= 1
          /\ calls.ipfsBeacon <= 1 /\ calls.traversal <= 1
          /\ calls.ipfsBeacon = 1 => pc \notin {"getToken", "apiFetch"}
          /\ (hist.apiError # Undefined /\ pc = "done" /\ outcome.status = "rejected") =>
               outcome.error.message.text \in FallbackFailureTexts)
  /\ [][(IsRandom /\ calls.ipfsBeacon = 1) =>
          /\ calls'.apiFetch = calls.apiFetch /\ calls'.getToken = calls.getToken
          /\ calls'.ipfsBeacon = 1 /\ calls'.traversal = calls.traversal]_vars

\* C33's case: three attempts were allowed, the one request to the API was
\* answered with a rate limit, the beacon was tried in three rounds, and
\* random() has rejected with the error of the last round.
C33_Witness ==
  /\ IsRandom /\ pc = "done" /\ outcome.status = "rejected"
  /\ calls.apiFetch = 1 /\ calls.ipfsBeacon = 1
  /\ hist.apiError # Undefined /\ hist.apiError.code = "RATE_LIMITED"
  /\ calls.rounds = 3
  /\ outcome.error.code = "NETWORK_ERROR" /\ outcome.error.message.text = "All sources failed"

\* The API attempt ended before its fetch, getToken having rejected with an
\* error of its own.
GetTokenRejected ==
  /\ IsRandom /\ calls.getToken = 1 /\ calls.apiFetch = 0
  /\ hist.apiError # Undefined /\ hist.apiError.name = "Error"
\* The API attempt ended before its fetch, getToken having returned null.
GetTokenReturnedNull ==
  /\ IsRandom /\ calls.getToken = 1 /\ calls.apiFetch = 0
  /\ hist.apiError # Undefined /\ hist.apiError.name = "OrbitportSDKError"

\* C34: an error getToken rejects with during the API attempt is not caught:
\* random() rejects with it, and the beacon is not turned to; a null return
\* alone is handled, as an authentication failure.
C34_GetTokenErrorPropagates ==
  /\ (GetTokenRejected /\ pc # "getToken") =>
        /\ pc = "done" /\ outcome.status = "rejected"
        /\ outcome.error.name = "Error"
        /\ calls.ipfsBeacon = 0
  /\ GetTokenReturnedNull => hist.apiError.code = "AUTH_FAILED"

\* C34's failing case: getToken has rejected, the beacon was turned to and
\* random() has resolved with the beacon's value.
C34_Witness ==
  /\ GetTokenRejected /\ pc = "done"
  /\ calls.ipfsBeacon = 1
  /\ outcome.status = "resolved" /\ outcome.value.service = "ipfs-beacon"

\* random() is to use the beacon alone: the request names it, or the
\* credentials are not both configured.
BeaconOnly == IsRandom /\ (RequestsBeacon \/ ~CredentialsConfigured)

\* The request passes validation and a beacon path is at hand, in the request
\* or as the configured default.
BeaconReachable ==
  /\ validateCTRNGRequest(call.request).valid
  /\ "beaconPath" \in DOMAIN call.request \/ "defaultBeaconPath" \in DOMAIN call.config.ipfs

\* C3 as stated: if the request's src is 'ipfs' or the credentials are not
\* both configured, random() issues no request to the centralized API, never
\* calls getToken, and invokes getBeaconWithBlockTraversal exactly once.
C3_AsStated ==
  (BeaconOnly /\ pc = "done") =>
     calls.apiFetch = 0 /\ calls.getToken = 0 /\ calls.traversal = 1

\* C3, amended: if the request's src is 'ipfs' or the credentials are not
\* both configured, random() issues no request to the centralized API and
\* never calls getToken; it invokes getBeaconWithBlockTraversal exactly once
\* when the request passes validation and a beacon path is at hand, and not
\* at all otherwise.
C3_BeaconOnlyRouting ==
  BeaconOnly =>
     /\ calls.apiFetch = 0 /\ calls.getToken = 0
     /\ pc # "start" => calls.traversal = (IF BeaconReachable THEN 1 ELSE 0)

\* C3's case: no credentials, the request asks for 'trng', and random() has
\* resolved after one call of getBeaconWithBlockTraversal.
C3_Witness ==
  /\ BeaconOnly /\ ~CredentialsConfigured
  /\ "src" \in DOMAIN call.request /\ call.request.src = Str("trng")
  /\ pc = "done" /\ outcome.status = "resolved"
  /\ calls.traversal = 1 /\ calls.getToken = 0 /\ calls.apiFetch = 0

\* random() was called with a request that is not tagged 'ipfs' and holds
\* one of the beacon's parameters.
OtherSourceWithBeaconParameters ==
  /\ call.op = "random"
  /\ "src" \notin DOMAIN call.request \/ call.request.src # Str("ipfs")
  /\ {"beaconPath", "index", "block"} \cap DOMAIN call.request # {}
MixedParametersMessage ==
  "IPFS-specific parameters (beaconPath, index, block) can only be used with src: 'ipfs'"

\* C28: a request whose src is not 'ipfs', or is absent, and which holds any
\* of beaconPath, index and block is rejected by random() with a validation
\* error that says so, at once: no token was asked for, no request went to
\* the API and no beacon call was made.
C28_MixedParametersAreRejected ==
  (OtherSourceWithBeaconParameters /\ pc # "start") =>
     /\ pc = "done" /\ outcome.status = "rejected"
     /\ outcome.error.code = "VALIDATION_ERROR"
     /\ \E i \in DOMAIN outcome.error.message : outcome.error.message[i] = MixedParametersMessage
     /\ calls = NoCalls /\ ~gb.active /\ ~trav.active /\ ipfsRequest = Undefined

\* C28's case: credentials are configured, the request names no source and
\* holds an index that would be valid, and random() has rejected.
C28_Witness ==
  /\ OtherSourceWithBeaconParameters /\ CredentialsConfigured
  /\ DOMAIN call.request = {"index"} /\ call.request.index = Num(0)
  /\ pc = "done" /\ outcome.status = "rejected"
  /\ outcome.error.code = "VALIDATION_ERROR" /\ calls = NoCalls

(***************************************************************************)
(* Properties of getBeacon and getBeaconWithBlockTraversal (under Spec).   *)
(***************************************************************************)
\* The path starts with neither '/ipns/' nor '/ipfs/'.
Unrecognized(path) == path.segs = <<>> \/ path.segs[1] \notin {"/ipns/", "/ipfs/"}

\* getBeacon has been called with a path it does not recognize.
CalledWithUnrecognizedPath == gb.active /\ Unrecognized(gb.request.path)

\* C6: for every path that starts with neither '/ipns/' nor '/ipfs/',
\* getBeacon fails without a network call: it has rejected by the time it
\* first gives up control, having issued no fetch round and no fetch.
C6_NoFetchForUnrecognizedPath ==
  CalledWithUnrecognizedPath =>
     /\ pc = "done" /\ outcome.status = "rejected"
     /\ calls.rounds = 0 /\ calls.fetches = 0

\* C6's case: getBeacon was called with a path without a prefix and has
\* rejected, no fetch issued.
C6_Witness ==
  /\ call.op = "getBeacon" /\ CalledWithUnrecognizedPath
  /\ pc = "done" /\ outcome.status = "rejected"
  /\ calls.getBeacon = 1 /\ calls.fetches = 0

\* C7: the failure getBeacon raises for a path without a recognized prefix
\* is of the invalid-request kind.
C7_UnrecognizedPathIsInvalidRequest ==
  (CalledWithUnrecognizedPath /\ pc = "done") =>
     outcome.status = "rejected" /\ outcome.error.code = "INVALID_REQUEST"

\* getBeaconWithBlockTraversal was asked for a block that is a non-negative
\* integer and has resolved the latest record, of sequence trav.currentSequence.
LatestResolved ==
  /\ trav.active /\ gb.active /\ gb.site \in {"latest", "hop"} /\ trav.currentSequence >= 0
  /\ ~trav.half

\* The record of a result: the plain record, or the gateway record of a
\* result in the shape of a comparison.
RecordOf(data) == IF "sequence" \in DOMAIN data THEN data ELSE data.gateway

\* The chain below the latest record is regular down to the target: every
\* retrieval has succeeded, every link has led to the sequence one below, and
\* no record above the target lacks its link.
RegularChain ==
  /\ ~hist.retrievalFailed
  /\ hist.unitSteps
  /\ trav.targetBeacon.sequence = trav.block \/ Truthy(trav.targetBeacon.previous)

\* C8: on a regular chain, getBeaconWithBlockTraversal with a numeric target
\* t below the latest sequence L returns the record of sequence t, as it was
\* retrieved, after exactly 1 + (L - t) calls of getBeacon: one for the
\* latest record and one per hop.
C8_TraversalReachesTarget ==
  (pc = "done" /\ LatestResolved /\ trav.block < trav.currentSequence /\ RegularChain) =>
     /\ calls.getBeacon = 1 + (trav.currentSequence - trav.block)
     /\ calls.hops = trav.currentSequence - trav.block
     /\ trav.targetBeacon.sequence = trav.block
     /\ call.op = "getBeaconWithBlockTraversal" =>
          /\ outcome.status = "resolved"
          /\ RecordOf(outcome.value) = trav.targetBeacon

\* C8's case: the target is two below the latest sequence, and the call has
\* resolved with the target's record after three calls of getBeacon.
C8_Witness ==
  /\ call.op = "getBeaconWithBlockTraversal"
  /\ pc = "done" /\ LatestResolved
  /\ trav.currentSequence - trav.block = 2
  /\ RegularChain
  /\ outcome.status = "resolved"
  /\ RecordOf(outcome.value).sequence = trav.block
  /\ RecordOf(outcome.value).ctrng # <<>>
  /\ calls.getBeacon = 3

\* C9: if the numeric target is greater than the sequence of the latest
\* record, getBeaconWithBlockTraversal fails with an invalid-request error
\* whose message names the requested block and the latest sequence, after
\* exactly one call of getBeacon and no hop.
C9_TargetAboveLatestIsInvalidRequest ==
  (pc = "done" /\ LatestResolved /\ trav.block > trav.currentSequence) =>
     /\ outcome.status = "rejected"
     /\ outcome.error.code = "INVALID_REQUEST"
     /\ outcome.error.message.block = trav.block
     /\ outcome.error.message.current = trav.currentSequence
     /\ calls.getBeacon = 1 /\ calls.hops = 0

\* C10: if the numeric target equals the sequence of the authoritative latest
\* record, getBeaconWithBlockTraversal returns the latest result as getBeacon
\* resolved it, after exactly one call of getBeacon and no hop.
C10_TargetEqualsLatest ==
  (pc = "done" /\ LatestResolved /\ trav.block = trav.currentSequence) =>
     /\ calls.getBeacon = 1 /\ calls.hops = 0
     /\ trav.latestResult # Undefined
     /\ call.op = "getBeaconWithBlockTraversal" => outcome = Resolved(trav.latestResult)

\* C10's case: the latest result is a comparison of two records that do not
\* match, and it is what the call has resolved with.
C10_Witness ==
  /\ call.op = "getBeaconWithBlockTraversal"
  /\ pc = "done" /\ LatestResolved /\ trav.block = trav.currentSequence
  /\ outcome.status = "resolved"
  /\ "match" \in DOMAIN outcome.value /\ ~outcome.value.match
  /\ outcome.value.api # Null
  /\ outcome.value = trav.latestResult
  /\ calls.getBeacon = 1

\* A traversal toward a target below the latest sequence has ended without a
\* failed retrieval; trav.targetBeacon is the last record reached.
TraversalEnded ==
  pc = "done" /\ LatestResolved /\ trav.block < trav.currentSequence /\ ~hist.retrievalFailed

\* The error of line 1118: the target was not reached, `current` is the
\* sequence of the last record reached.
FailedToReach(error) ==
  /\ error.message.text = "Failed to reach block. Current block:"
  /\ error.message.block = trav.block
  /\ error.message.current = trav.targetBeacon.sequence

\* C11: if the record the traversal stands at has no previous link (absent
\* or null) before a record with the target sequence has been reached, no
\* further getBeacon call is issued and the call fails with the
\* failed-to-reach error reporting the sequence of the last record reached.
C11_ChainEndsBeforeTarget ==
  (TraversalEnded /\ trav.targetBeacon.sequence > trav.block
     /\ trav.targetBeacon.previous \in {Undefined, Null}) =>
     /\ outcome.status = "rejected"
     /\ FailedToReach(outcome.error)
     /\ calls.hops = trav.traversedBlocks
     /\ calls.getBeacon = 1 + trav.traversedBlocks

\* C11's case: one hop was made, the record it led to is above the target and
\* its previous link is absent, with hops still allowed.
C11_Witness ==
  /\ TraversalEnded /\ trav.targetBeacon.sequence > trav.block
  /\ trav.targetBeacon.previous = Undefined
  /\ calls.hops = 1 /\ trav.maxTraversal > 1
  /\ outcome.status = "rejected"
  /\ outcome.error.message.current = trav.targetBeacon.sequence

\* C12: if a hop yields a record whose sequence is below the target, the
\* traversal stops at that hop, issues no further getBeacon call, and fails
\* with the not-found error reporting that record's sequence as the last
\* available block.
C12_TargetSkipped ==
  (TraversalEnded /\ trav.targetBeacon.sequence < trav.block) =>
     /\ outcome.status = "rejected"
     /\ outcome.error.message.text = "Block not found in chain. Last available block:"
     /\ outcome.error.message.block = trav.block
     /\ outcome.error.message.last = trav.targetBeacon.sequence
     /\ calls.hops = trav.traversedBlocks
     /\ calls.getBeacon = 1 + trav.traversedBlocks

\* C12's case: the first hop led below the target, to a record that has a
\* previous link, with hops still allowed.
C12_Witness ==
  /\ TraversalEnded /\ trav.targetBeacon.sequence < trav.block
  /\ Truthy(trav.targetBeacon.previous)
  /\ calls.hops = 1 /\ trav.maxTraversal > 1
  /\ outcome.status = "rejected"
  /\ outcome.error.message.last = trav.targetBeacon.sequence

\* The most attempts one getBeacon call makes, and a number above the steps
\* one getBeacon call takes (a fetch round and a backoff per attempt).
MostAttempts == IF MaxRetries > DefaultRetries THEN MaxRetries ELSE DefaultRetries
StepsOfOneCall == 2 * MostAttempts + 1

\* The getBeacon calls that may still follow the one in progress.
CallsToFollow ==
  CASE gb.site = "hop" -> trav.maxTraversal - trav.traversedBlocks - 1
    [] gb.site = "latest" -> MaxSeq
    [] OTHER -> 0

\* A number that bounds the steps the call can still take.
StepsLeft ==
  CASE pc = "done" -> 0
    [] pc = "fetch" -> StepsOfOneCall * CallsToFollow + 2 * (gb.maxAttempts - gb.attempt) + 2
    [] pc = "sleep" -> StepsOfOneCall * CallsToFollow + 2 * (gb.maxAttempts - gb.attempt) + 1
    [] pc = "apiFetch" -> StepsOfOneCall * (MaxSeq + 1) + 2
    [] pc = "getToken" -> StepsOfOneCall * (MaxSeq + 1) + 3
    [] OTHER -> StepsOfOneCall * (MaxSeq + 1) + 4

\* C13: whatever the chain holds (links that form a cycle, sequences that
\* never decrease), a traversal makes at most latestSequence - targetBlock
\* hops, and fails with the failed-to-reach error if the target has not been
\* reached after that many; and every step of a call lowers a bound on the
\* steps left, so the traversal ends if each getBeacon call does.
C13_TraversalIsBounded ==
  /\ [](LatestResolved /\ trav.block < trav.currentSequence =>
          /\ calls.hops <= trav.currentSequence - trav.block
          /\ (TraversalEnded /\ calls.hops = trav.currentSequence - trav.block
                /\ trav.targetBeacon.sequence > trav.block) =>
               (outcome.status = "rejected" /\ FailedToReach(outcome.error)))
  /\ [][StepsLeft >= 0 /\ StepsLeft' < StepsLeft]_vars

\* C13's case: every hop allowed was made along links that never led to a
\* lower sequence, the last record still has a link, and the call has failed.
C13_Witness ==
  /\ TraversalEnded
  /\ trav.maxTraversal >= 2 /\ calls.hops = trav.maxTraversal
  /\ ~hist.unitSteps
  /\ trav.targetBeacon.sequence >= trav.currentSequence
  /\ Truthy(trav.targetBeacon.previous)
  /\ outcome.status = "rejected"

\* getBeaconWithBlockTraversal was called with a block that is a number but
\* not a non-negative integer.
CalledWithBadNumber ==
  /\ trav.active /\ "block" \in DOMAIN trav.request
  /\ trav.request.block.type = "number"
  /\ (trav.request.block.n < 0 \/ ~isInteger(trav.request.block))

\* C14: getBeaconWithBlockTraversal called with a numeric target that is
\* negative or not an integer fails with an invalid-request error before any
\* resolver call or network I/O: it has rejected, with that kind, by the time
\* it first gives up control, and no getBeacon call or fetch was issued.
C14_BadNumberIsInvalidRequest ==
  CalledWithBadNumber =>
     /\ pc = "done" /\ outcome.status = "rejected"
     /\ outcome.error.code = "INVALID_REQUEST"
     /\ calls.getBeacon = 0 /\ calls.rounds = 0 /\ calls.fetches = 0

\* C14's case as the code has it: called with the block 3/2, the traversal
\* has resolved the latest record over the network and walks the chain.
C14_Witness ==
  /\ call.op = "getBeaconWithBlockTraversal" /\ CalledWithBadNumber
  /\ trav.request.block = Half(1)
  /\ calls.fetches >= 1 /\ calls.hops >= 1

\* getBeaconWithBlockTraversal, called directly, has walked at least one hop
\* and resolved.
TraversalSucceeded ==
  /\ call.op = "getBeaconWithBlockTraversal"
  /\ TraversalEnded /\ calls.hops >= 1 /\ outcome.status = "resolved"

C15_WitnessPlain ==
  /\ TraversalSucceeded /\ trav.latestIsPlain
  /\ outcome.value = trav.targetBeacon

\* The part of the chain that was walked can be the beginning of a chain that
\* contains the target: it has ended at the target, or above it at a record
\* that has a link to follow.
ChainLeadsToTarget ==
  \/ trav.targetBeacon.sequence = trav.block
  \/ trav.targetBeacon.sequence > trav.block /\ Truthy(trav.targetBeacon.previous)

\* The call returned the record the walk ended at, and it is the target's.
ReturnsTarget ==
  /\ trav.targetBeacon.sequence = trav.block
  /\ call.op = "getBeaconWithBlockTraversal" =>
       outcome.status = "resolved" /\ RecordOf(outcome.value) = trav.targetBeacon

\* C16 as stated: on any chain whose sequences never increase from the
\* latest record on, by steps of any size, and that contains a record of the
\* target's sequence, getBeaconWithBlockTraversal returns that record when
\* every retrieval succeeds.
C16_AsStated ==
  (TraversalEnded /\ hist.nonIncreasing /\ ChainLeadsToTarget) => ReturnsTarget

\* C16: on any chain whose sequences strictly decrease from the latest
\* record on, by steps of any size, and that contains a record of the
\* target's sequence, getBeaconWithBlockTraversal returns that record when
\* every retrieval succeeds.
C16_DescendingChainReachesTarget ==
  (TraversalEnded /\ hist.descending /\ ChainLeadsToTarget) => ReturnsTarget

\* C16's case: the chain steps down by more than one, and the call has
\* resolved with the target's record.
C16_Witness ==
  /\ call.op = "getBeaconWithBlockTraversal"
  /\ TraversalEnded /\ hist.descending /\ ~hist.unitSteps
  /\ calls.hops >= 2
  /\ trav.targetBeacon.sequence = trav.block
  /\ outcome.status = "resolved" /\ RecordOf(outcome.value) = trav.targetBeacon

\* random() was called for the beacon with a block that is a non-negative
\* integer, and has resolved.
RandomAtBlockResolved ==
  /\ call.op = "random" /\ RequestsBeacon
  /\ "block" \in DOMAIN call.request
  /\ call.request.block.type = "number" /\ call.request.block.n >= 0
  /\ pc = "done" /\ outcome.status = "resolved"

\* C32: whenever random({src: 'ipfs', block: b}) with a non-negative integer
\* b, 0 included, succeeds, its value is taken from a record whose sequence
\* is b, also when the two sources returned different latest records.
C32_ValueIsOfTheRequestedBlock ==
  RandomAtBlockResolved => hist.selected.sequence = call.request.block.n

\* C32's failing case: block 0 was asked for and the value comes from a
\* record of a later sequence, reached without a hop.
C32_Witness ==
  /\ RandomAtBlockResolved /\ call.request.block.n = 0
  /\ hist.selected.sequence > 0 /\ calls.hops = 0

\* C32's other failing case: the block asked for is the sequence of the
\* gateway's latest record, the api's latest record is a later one, and the
\* value comes from the api's.
C32_WitnessDisagreement ==
  /\ RandomAtBlockResolved /\ call.request.block.n > 0
  /\ trav.latestResult # Undefined /\ "match" \in DOMAIN trav.latestResult
  /\ trav.latestResult.gateway # Null /\ trav.latestResult.api # Null
  /\ trav.latestResult.gateway.sequence = call.request.block.n
  /\ trav.latestResult.api.sequence > call.request.block.n
  /\ hist.selected = trav.latestResult.api

(***************************************************************************)
(* Properties of the settlement of every call (under Spec).                *)
(***************************************************************************)
\* The call has rejected with an error that has a message and a kind, the
\* kind one of ERROR_CODES.
RejectedWithAKnownKind ==
  /\ outcome.status = "rejected"
  /\ {"message", "code"} \subseteq DOMAIN outcome.error
  /\ outcome.error.code \in ERROR_CODES

\* C30: every call of random(), getBeacon and getBeaconWithBlockTraversal
\* that has settled has either resolved, or rejected with an error that
\* carries a message and a kind that is one of the codes of ERROR_CODES.
C30_RejectionsCarryAKnownKind ==
  pc = "done" => (outcome.status = "resolved" \/ RejectedWithAKnownKind)

\* C30's failing case: getBeaconWithBlockTraversal was asked for a block
\* above the latest record's sequence and has rejected with an error whose
\* code is undefined.
C30_Witness ==
  /\ call.op = "getBeaconWithBlockTraversal"
  /\ pc = "done" /\ LatestResolved /\ trav.block > trav.currentSequence
  /\ outcome.status = "rejected"
  /\ outcome.error.name = "OrbitportSDKError" /\ outcome.error.code = "undefined"

(***************************************************************************)
(* Properties of compareBeaconData (under SpecCompare).                    *)
(***************************************************************************)
Compared == call.op = "compareBeaconData" /\ pc = "done"
BothPresent == call.gateway # Null /\ call.api # Null
\* A previous link is present: the record has one, neither null nor absent.
HasLink(record) == record.previous \notin {Undefined, Null}

C18_DifferencesIffBothDiffer ==
  Compared =>
     LET differences == outcome.value.differences
     IN /\ differences # Undefined <=> (BothPresent /\ ~outcome.value.match)
        /\ differences # Undefined =>
             /\ differences.sequence # Undefined <=>
                  call.gateway.sequence # call.api.sequence
             /\ differences.previous # Undefined <=>
                  call.gateway.previous # call.api.previous
             /\ differences.previous # Undefined =>
                  HasLink(call.gateway) \/ HasLink(call.api)

\* C18's case as the code has it: neither record has a link, one's is null
\* and the other's absent, and a previous pair of two empty strings is
\* reported.
C18_Witness ==
  /\ Compared /\ BothPresent
  /\ ~HasLink(call.gateway) /\ ~HasLink(call.api)
  /\ call.gateway.sequence = call.api.sequence
  /\ ~outcome.value.match
  /\ outcome.value.differences.previous = [gateway |-> Path(<<>>), api |-> Path(<<>>)]

(***************************************************************************)
(* Properties of one fetch round of getBeacon (under SpecRound).           *)
(***************************************************************************)
RoundSettled == call.op = "getBeaconAttempt" /\ pc = "done"
Requested == sourceList(call.request.sources)
ReturnedError(src) == "error" \in DOMAIN call.net[src]
ReturnedBody(src) == "text" \in DOMAIN call.net[src]
Parses(src) == ReturnedBody(src) /\ parseBeacon(call.net[src].text).status = "resolved"
\* The error messages of the sources requested, the gateway's first.
RequestedErrors ==
  (IF "gateway" \in Requested THEN <<call.net.gateway.error>> ELSE <<>>)
  \o (IF "api" \in Requested THEN <<call.net.api.error>> ELSE <<>>)

\* C19: in one fetch round of getBeacon, if every requested source returned
\* an error the round fails with a network error whose message joins the
\* error messages of all of them; if at least one source returned a body but
\* no returned body parses, the round fails with an invalid-response error;
\* otherwise the round succeeds.
C19_RoundOutcome ==
  RoundSettled =>
     IF \A src \in Requested : ReturnedError(src)
       THEN /\ outcome.status = "rejected"
            /\ outcome.error.code = "NETWORK_ERROR"
            /\ outcome.error.message.text = "All sources failed"
            /\ outcome.error.message.errors = RequestedErrors
     ELSE IF \A src \in Requested : ~Parses(src)
       THEN /\ outcome.status = "rejected"
            /\ outcome.error.code = "INVALID_RESPONSE"
     ELSE outcome.status = "resolved"

\* C19's case: both sources were requested and failed, each with its own
\* message, and the round has failed with both messages.
C19_Witness ==
  /\ RoundSettled /\ Requested = {"gateway", "api"}
  /\ ReturnedError("gateway") /\ ReturnedError("api")
  /\ call.net.gateway.error # call.net.api.error
  /\ outcome.status = "rejected"
  /\ outcome.error.message.errors = <<call.net.gateway.error, call.net.api.error>>

\* C19's second case: one source failed, the other returned a body that does
\* not parse, and the round has failed with an invalid-response error.
C19_WitnessNoneParses ==
  /\ RoundSettled /\ Requested = {"gateway", "api"}
  /\ ReturnedError("gateway") /\ ReturnedBody("api") /\ ~Parses("api")
  /\ outcome.status = "rejected" /\ outcome.error.code = "INVALID_RESPONSE"

\* The round's result has the shape of a comparison.
ReturnsComparison == "match" \in DOMAIN outcome.value

\* C20: a successful round of getBeacon returns a comparison exactly when
\* enableComparison is true and the records of two sources parsed; in every
\* other successful case it returns a single plain record, the gateway's
\* when the gateway's body parsed and otherwise the api's.
C20_ComparisonOrSingleRecord ==
  (RoundSettled /\ outcome.status = "resolved") =>
     /\ ReturnsComparison <=>
          (call.request.enableComparison /\ \A src \in {"gateway", "api"} : Parses(src))
     /\ ~ReturnsComparison =>
          outcome.value =
            IF Parses("gateway") THEN parseBeacon(call.net.gateway.text).value
            ELSE parseBeacon(call.net.api.text).value

\* C20's case: both bodies parsed into different records, no comparison was
\* asked for, and the gateway's record is returned.
C20_Witness ==
  /\ RoundSettled /\ outcome.status = "resolved"
  /\ ~call.request.enableComparison
  /\ Parses("gateway") /\ Parses("api")
  /\ call.net.gateway.text # call.net.api.text
  /\ outcome.value = parseBeacon(call.net.gateway.text).value

\* C20's other case: a comparison was asked for and both bodies parsed.
C20_WitnessComparison ==
  /\ RoundSettled /\ outcome.status = "resolved"
  /\ call.request.enableComparison /\ Parses("gateway") /\ Parses("api")
  /\ ReturnsComparison /\ ~outcome.value.match

\* C40: in every comparison a round of getBeacon produces, whatever the
\* configured gateway and api URLs are (those whose text contains 'api' or
\* 'gateway' included), the gateway slot holds the record parsed from the
\* body fetched via the gateway and the api slot the record parsed from the
\* body fetched via the api; the two never hold the record of one source.
C40_SlotsHoldTheirOwnSource ==
  (RoundSettled /\ outcome.status = "resolved" /\ ReturnsComparison) =>
     /\ outcome.value.gateway = parseBeacon(call.net.gateway.text).value
     /\ outcome.value.api = parseBeacon(call.net.api.text).value

\* The gateway's URL contains "api", the two bodies parsed into different
\* records, and both slots of the comparison hold the gateway's record.
C40_Witness ==
  /\ RoundSettled /\ outcome.status = "resolved" /\ ReturnsComparison
  /\ includes(call.ipfs.gateway, "api")
  /\ parseBeacon(call.net.gateway.text).value # parseBeacon(call.net.api.text).value
  /\ outcome.value.gateway = parseBeacon(call.net.gateway.text).value
  /\ outcome.value.api = parseBeacon(call.net.gateway.text).value
  /\ outcome.value.match

(***************************************************************************)
(* Properties of getBeacon's rounds and transports (under SpecFetch).      *)
(***************************************************************************)
RequestedSources == sourceList(call.request.sources)
\* The round whose transports the state holds has completed, every source
\* requested having returned an error.
RoundFailed ==
  /\ transports.active
  /\ \A src \in RequestedSources :
       transports[src].at = "done" /\ "error" \in DOMAIN transports[src].result
\* The error messages of that round, the gateway's first.
RoundErrors ==
  (IF "gateway" \in RequestedSources THEN <<transports.gateway.result.error>> ELSE <<>>)
  \o (IF "api" \in RequestedSources THEN <<transports.api.result.error>> ELSE <<>>)
\* Every source requested has its first fetch in flight.
AllIssued(ts) ==
  /\ ts.active
  /\ \A src \in {"gateway", "api"} :
       IF src \in RequestedSources THEN ts[src].at \in {"fetch", "resolve", "cat"}
       ELSE ts[src].at = "none"
SuppliedRetries ==
  IF "retries" \in DOMAIN call.options /\ call.options.retries.n # 0
    THEN call.options.retries.n ELSE DefaultRetries

\* C21: when every requested source fails to retrieve in every round,
\* getBeacon performs exactly maxAttempts fetch rounds (options.retries, 3 if
\* none is given) and never more, and then rejects with the network error of
\* the last round; a later round starts only from the backoff sleep that
\* follows a failed round, and it fetches every requested source again.
C21_RoundsUntilMaxAttempts ==
  /\ [](gb.active =>
          /\ gb.maxAttempts = SuppliedRetries
          /\ calls.rounds <= gb.maxAttempts
          /\ calls.fetches = calls.rounds * Cardinality(RequestedSources)
          /\ (pc = "done" /\ RoundFailed) =>
               /\ calls.rounds = gb.maxAttempts
               /\ outcome.status = "rejected"
               /\ outcome.error.code = "NETWORK_ERROR"
               /\ outcome.error.message.errors = RoundErrors)
  /\ [][(calls.rounds >= 1 /\ calls.rounds' # calls.rounds) =>
          /\ calls.rounds' = calls.rounds + 1
          /\ pc = "sleep" /\ RoundFailed
          /\ AllIssued(transports')]_vars

\* C21's case: no retries were given, both sources failed in three rounds,
\* in the last of them with different errors, and getBeacon has rejected.
C21_Witness ==
  /\ pc = "done" /\ RoundFailed
  /\ "retries" \notin DOMAIN call.options
  /\ RequestedSources = {"gateway", "api"}
  /\ calls.rounds = 3 /\ calls.fetches = 6
  /\ transports.gateway.result.error # transports.api.result.error
  /\ outcome.status = "rejected"

\* The kinds the claim lists as retryable.
RetryableKinds ==
  { "NETWORK_ERROR", "TIMEOUT", "CONNECTION_FAILED", "SERVICE_UNAVAILABLE",
    "RATE_LIMITED", "PROVIDER_UNAVAILABLE" }
RoundCompleted ==
  transports.active /\ \A src \in RequestedSources : transports[src].at = "done"
\* The round has completed, a body was returned and no returned body parses.
NoneParses ==
  /\ RoundCompleted /\ ~RoundFailed
  /\ \A src \in RequestedSources :
       "text" \in DOMAIN transports[src].result =>
          parseBeacon(transports[src].result.text).status = "rejected"

\* C22: a failure whose kind is not one of network-error, timeout,
\* connection-failed, service-unavailable, rate-limited and
\* provider-unavailable leaves withRetry after the one invocation that
\* raised it, without backoff sleep and without onRetry call; a round of
\* getBeacon in which bodies were retrieved and none parses is such a
\* failure, and is never retried.
C22_OtherKindsAreNotRetried ==
  /\ \A code \in ERROR_CODES \cup {"undefined"} :
       isRetryableError([code |-> code]) <=> code \in RetryableKinds
  /\ pc = "sleep" => RoundFailed
  /\ NoneParses =>
       /\ pc = "done" /\ outcome.status = "rejected"
       /\ outcome.error.code = "INVALID_RESPONSE"
       /\ outcome.error.code \notin RetryableKinds
       /\ calls.rounds = gb.attempt /\ calls.onRetry = gb.attempt - 1

\* C22's case: the first round failed and was retried, in the second a body
\* came back that does not parse, and getBeacon has rejected at once although
\* an attempt was left.
C22_Witness ==
  /\ NoneParses /\ pc = "done"
  /\ gb.maxAttempts = 3 /\ calls.rounds = 2 /\ calls.onRetry = 1
  /\ outcome.error.code = "INVALID_RESPONSE"

\* The label of a source: `gateway:<url>` or `api:<url>`.
LabelOf(src) ==
  IF src = "gateway" THEN GatewayLabel(call.config.ipfs.gateway) ELSE ApiLabel(call.config.ipfs.apiUrl)
\* The messages the failures of a transport call are returned with.
FailureMessages ==
  { "Gateway returned status", "fetch failed", "This operation was aborted",
    "Unknown gateway error", "API resolve failed", "API resolve failed: no path returned",
    "API cat failed", "Unknown API error" }

\* C23: readViaGateway and readViaApi never throw or reject: every network
\* failure, non-success status, failed name resolution or timeout is
\* returned as a result that carries the label of the source and an error
\* message, and a success as a result that carries the label and the text as
\* it was received.
C23_TransportsNeverThrow ==
  transports.active =>
     \A src \in {"gateway", "api"} :
        /\ transports[src].at # "threw"
        /\ transports[src].at = "done" =>
             LET result == transports[src].result
             IN /\ result.source = LabelOf(src)
                /\ \/ DOMAIN result = {"source", "error"} /\ result.error \in FailureMessages
                   \/ DOMAIN result = {"source", "text"} /\ result.text \in FetchTexts

\* C23's case: the gateway call was aborted by its timer, the api's name
\* resolution returned no path, and both have returned a result with an error.
C23_Witness ==
  /\ transports.active
  /\ transports.gateway.at = "done" /\ transports.api.at = "done"
  /\ transports.gateway.result =
       [source |-> LabelOf("gateway"), error |-> "This operation was aborted"]
  /\ transports.api.result =
       [source |-> LabelOf("api"), error |-> "API resolve failed: no path returned"]

\* C24: every transport call of the beacon pipeline, for the gateway and for
\* the api alike, is bound to the timeout: while a call is in flight its
\* abort timer is set, so that a call still in flight when the timeout
\* elapses is aborted and returned as an error of that source, and a fetch
\* round eventually completes even if a source never answers.
C24_EveryTransportTimesOut ==
  /\ [](transports.active =>
          \A src \in {"gateway", "api"} : InFlight(transports[src]) => transports[src].timer)
  /\ (pc = "fetch") ~> (pc # "fetch")

\* C24's case as the code has it: the gateway call has returned, the api
\* call is in flight with no timer set, and the round waits for it.
C24_Witness ==
  /\ pc = "fetch" /\ transports.active
  /\ transports.gateway.at = "done"
  /\ InFlight(transports.api) /\ ~transports.api.timer

Sibling(src) == IF src = "gateway" THEN "api" ELSE "gateway"
ReturnedAnError(t) == t.at = "done" /\ "error" \in DOMAIN t.result
ReturnedARecord(t) ==
  t.at = "done" /\ "text" \in DOMAIN t.result /\ parseBeacon(t.result.text).status = "resolved"

\* C25: when both sources are requested and the call to one fails or times
\* out, the call to the other is not cancelled: it stays as it is, the round
\* waits for it, and if its body parses getBeacon succeeds with that one
\* record in the same round, without a retry.
C25_SiblingIsNotCancelled ==
  /\ [][\A src \in {"gateway", "api"} :
          ( /\ pc = "fetch" /\ RequestedSources = {"gateway", "api"}
            /\ InFlight(transports[src]) /\ ReturnedAnError(transports'[src])
            /\ InFlight(transports[Sibling(src)]) ) =>
               /\ transports'[Sibling(src)] = transports[Sibling(src)]
               /\ pc' = "fetch" /\ calls' = calls]_vars
  /\ [](\A src \in {"gateway", "api"} :
          ( /\ RoundCompleted /\ RequestedSources = {"gateway", "api"}
            /\ ReturnedAnError(transports[src]) /\ ReturnedARecord(transports[Sibling(src)]) ) =>
               /\ pc = "done" /\ outcome.status = "resolved"
               /\ outcome.value = parseBeacon(transports[Sibling(src)].result.text).value
               /\ calls.rounds = gb.attempt /\ calls.onRetry = gb.attempt - 1)

\* C25's case: the gateway call was aborted by its timer before the api call
\* returned, the api's body parsed, and getBeacon has resolved in the first
\* round with the api's record although a comparison was asked for.
C25_Witness ==
  /\ pc = "done" /\ RoundCompleted /\ RequestedSources = {"gateway", "api"}
  /\ call.request.enableComparison
  /\ transports.order = <<"gateway", "api">>
  /\ ReturnedAnError(transports.gateway)
  /\ transports.gateway.result.error = "This operation was aborted"
  /\ ReturnedARecord(transports.api)
  /\ calls.rounds = 1
  /\ outcome.status = "resolved"
  /\ outcome.value = parseBeacon(transports.api.result.text).value

RecordFrom(src) == parseBeacon(transports[src].result.text).value

\* C26: when both sources are requested, the gateway fetch and the api fetch
\* are both issued before either is awaited, the round decides only after
\* both calls have returned, and what getBeacon resolves with is fixed by
\* what each source returned, whichever returned first: a comparison holds
\* the gateway's record in the gateway slot and the api's in the api slot,
\* and a single record is the gateway's if its body parsed, else the api's.
C26_OutcomeIgnoresCompletionOrder ==
  /\ [][(RequestedSources = {"gateway", "api"} /\ calls.rounds' # calls.rounds) =>
          /\ pc' = "fetch"
          /\ transports'.gateway.at = "fetch" /\ transports'.gateway.timer
          /\ transports'.api.at \in {"resolve", "cat"}
          /\ transports'.order = <<>>]_vars
  /\ []((transports.active /\ RequestedSources = {"gateway", "api"}) =>
          /\ (InFlight(transports.gateway) \/ InFlight(transports.api)) =>
               pc = "fetch" /\ outcome = Pending
          /\ (RoundCompleted /\ pc = "done" /\ outcome.status = "resolved") =>
               IF ReturnedARecord(transports.gateway) /\ ReturnedARecord(transports.api)
                    /\ call.request.enableComparison
                 THEN /\ outcome.value.gateway = RecordFrom("gateway")
                      /\ outcome.value.api = RecordFrom("api")
               ELSE IF ReturnedARecord(transports.gateway)
                 THEN outcome.value = RecordFrom("gateway")
               ELSE outcome.value = RecordFrom("api"))

\* C26's case: the api call returned before the gateway call, with a
\* different record, no comparison was asked for, and getBeacon has resolved
\* with the gateway's record.
C26_Witness ==
  /\ pc = "done" /\ RoundCompleted /\ RequestedSources = {"gateway", "api"}
  /\ transports.order = <<"api", "gateway">>
  /\ ReturnedARecord(transports.gateway) /\ ReturnedARecord(transports.api)
  /\ RecordFrom("gateway") # RecordFrom("api")
  /\ ~call.request.enableComparison
  /\ outcome.status = "resolved" /\ outcome.value = RecordFrom("gateway")

\* C26's other case: the api call returned first and a comparison was asked
\* for; the slots hold the records of their sources.
C26_WitnessComparison ==
  /\ pc = "done" /\ RoundCompleted /\ RequestedSources = {"gateway", "api"}
  /\ transports.order = <<"api", "gateway">>
  /\ ReturnedARecord(transports.gateway) /\ ReturnedARecord(transports.api)
  /\ RecordFrom("gateway") # RecordFrom("api")
  /\ call.request.enableComparison
  /\ outcome.status = "resolved"
  /\ outcome.value.gateway = RecordFrom("gateway") /\ outcome.value.api = RecordFrom("api")

(***************************************************************************)
(* Properties of getBeaconWithFallback (under SpecFallback).               *)
(***************************************************************************)
FallbackOn == enableFallback(call.config.ipfs)
\* The state is inside the getBeacon call made for `source` alone.
Resolving(source) ==
  gb.active /\ gb.site = source
ApiRequested(ts) == ts.active /\ ts.api.at # "none"
GatewayRequested(ts) == ts.active /\ ts.gateway.at # "none"
\* The error of an api-only getBeacon call that ended in the state's round.
ApiOnlyError ==
  IF "error" \in DOMAIN transports.api.result
    THEN OrbitportSDKError([text |-> "All sources failed",
                            errors |-> <<transports.api.result.error>>], "NETWORK_ERROR")
  ELSE OrbitportSDKError([text |-> "No valid beacon data found from any source"],
                         "INVALID_RESPONSE")

\* C27: with enableFallback on, getBeaconWithFallback first resolves the
\* path with the gateway alone; a request goes to the api source only after
\* that gateway-only call has failed, which after an all-sources-failed round
\* it does only in its last attempt; from then on the api alone is used; and
\* when the api-only call fails too, the caller receives the api-only call's
\* error.
C27_ApiOnlyAfterGatewayFailed ==
  /\ [](FallbackOn =>
          /\ gb.active =>
               \/ gb.site = "fallbackGateway" /\ gb.request.sources = {"gateway"}
               \/ gb.site = "fallbackApi" /\ gb.request.sources = {"api"}
          /\ Resolving("fallbackGateway") => ~ApiRequested(transports)
          /\ Resolving("fallbackApi") =>
               /\ ~GatewayRequested(transports)
               /\ hist.retrievalFailed /\ hist.caught # Undefined
          /\ ApiRequested(transports) => Resolving("fallbackApi")
          /\ pc = "done" =>
               /\ outcome.status = "rejected" => Resolving("fallbackApi")
               /\ (outcome.status = "rejected" /\ ApiRequested(transports)) =>
                    outcome.error = ApiOnlyError
               /\ (outcome.status = "resolved" /\ Resolving("fallbackGateway")) =>
                    outcome.value = parseBeacon(transports.gateway.result.text).value
               /\ (outcome.status = "resolved" /\ Resolving("fallbackApi")) =>
                    outcome.value = parseBeacon(transports.api.result.text).value)
  /\ [][FallbackOn =>
          /\ (Resolving("fallbackApi")' /\ ~Resolving("fallbackApi")) =>
               pc = "catch" /\ Resolving("fallbackGateway")
          /\ (pc' = "catch" /\ pc # "catch") =>
               /\ Resolving("fallbackGateway")' /\ outcome' = Pending
               /\ \/ calls'.rounds = 0
                  \/ /\ GatewayRequested(transports') /\ transports'.gateway.at = "done"
                     /\ "error" \in DOMAIN transports'.gateway.result =>
                          calls'.rounds = SuppliedRetries]_vars

\* C27's case: the gateway-only call failed in each of its three rounds, the
\* api-only call was made and its body did not parse, and the caller has
\* received the api-only call's error, which is not the gateway's.
C27_Witness ==
  /\ FallbackOn /\ pc = "done" /\ Resolving("fallbackApi")
  /\ hist.caught.code = "NETWORK_ERROR"
  /\ ApiRequested(transports) /\ "text" \in DOMAIN transports.api.result
  /\ outcome.status = "rejected" /\ outcome.error.code = "INVALID_RESPONSE"
  /\ calls.getBeacon = 2

(***************************************************************************)
(* Properties of sanitizeCTRNGRequest (under SpecSanitize).                *)
(***************************************************************************)
\* sanitizeCTRNGRequest has returned for a request tagged 'ipfs': the
\* request was accepted by validateCTRNGRequest.
SanitizedIpfs ==
  /\ pc = "done" /\ outcome.status = "resolved"
  /\ "src" \in DOMAIN call.request /\ call.request.src = Str("ipfs")
SanitizeDefault(key) ==
  CASE key = "block" -> Str("INF")
    [] key = "index" -> Num(0)
    [] key = "beaconPath" -> Undefined

\* C29: for every 'ipfs' request validateCTRNGRequest accepts,
\* sanitizeCTRNGRequest returns the beaconPath, block and index that were
\* supplied, unchanged, and block 'INF' and index 0 for those, and only
\* those, that were not supplied.
C29_SuppliedFieldsArePreserved ==
  SanitizedIpfs =>
    \A key \in {"beaconPath", "block", "index"} :
       outcome.value[key] = (IF key \in DOMAIN call.request THEN call.request[key]
                             ELSE SanitizeDefault(key))

\* C29's failing case: block 0 was supplied and accepted, and the request
\* returned holds block 'INF'.
C29_Witness ==
  /\ SanitizedIpfs
  /\ "block" \in DOMAIN call.request /\ call.request.block = Num(0)
  /\ outcome.value.block = Str("INF")

(***************************************************************************)
(* Properties of parseBeacon (under SpecParse).                            *)
(***************************************************************************)
\* The body is a JSON object that holds a data object.
HasDataObject ==
  /\ call.jsonText.json = "object" /\ "data" \in DOMAIN call.jsonText
  /\ "type" \notin DOMAIN call.jsonText.data \/ call.jsonText.data.type = "array"
\* The data object holds a sequence and a timestamp.
HasSequenceAndTimestamp ==
  {"sequence", "timestamp"} \subseteq DOMAIN call.jsonText.data
\* The values of the data object's ctrng, if it is an array.
ValuesOf(data) ==
  IF "ctrng" \in DOMAIN data /\ data.ctrng.type = "array" THEN data.ctrng.items ELSE <<>>

\* C35: parseBeacon fails for every body that is not JSON, is not an
\* object, holds no data object, or whose data object lacks sequence or
\* timestamp; for every other body it returns a record, whose values are
\* the ctrng array's, or none if ctrng is missing or no array.  A record
\* returned always has a defined sequence.
C35_ParseFailsOnMalformedBodies ==
  pc = "done" =>
    IF HasDataObject /\ HasSequenceAndTimestamp
      THEN /\ outcome.status = "resolved"
           /\ outcome.value.ctrng = ValuesOf(call.jsonText.data)
           /\ outcome.value.sequence = call.jsonText.data.sequence
      ELSE outcome.status = "rejected"

\* C35's failing case: the data object holds a timestamp and no sequence,
\* and parseBeacon has returned a record.
C35_Witness ==
  /\ pc = "done" /\ HasDataObject
  /\ "sequence" \notin DOMAIN call.jsonText.data
  /\ "timestamp" \in DOMAIN call.jsonText.data
  /\ outcome.status = "resolved" /\ outcome.value.sequence = Undefined

\* The part of C35 that holds: a body that is not JSON, is no object or
\* holds no data object is rejected, and a missing ctrng, or one that is no
\* array, alone causes no failure.
C35_Rest ==
  pc = "done" =>
    IF HasDataObject
      THEN /\ outcome.status = "resolved"
           /\ outcome.value.ctrng = ValuesOf(call.jsonText.data)
      ELSE outcome.status = "rejected"

(***************************************************************************)
(* Properties of MemoryTokenStorage (under SpecStorage).                   *)
(***************************************************************************)
\* The latest call on the storage was a get.
GetReturned == auth.got # NotCalled
\* A token was set, no clear came after, and the clock is before the
\* expiresAt of that set.
LastSetIsCurrent ==
  /\ auth.lastSet # Null /\ ~auth.cleared
  /\ auth.now < auth.lastSet.expiresAt * 1000

\* C31: whatever calls of set, clear and get came before and however much
\* time has passed, get returns the token of the latest set if no clear
\* came after that set and the clock is before its expiresAt (in seconds),
\* and null in every other case.
C31_GetReturnsTheCurrentToken ==
  GetReturned =>
    auth.got = (IF LastSetIsCurrent THEN auth.lastSet.token ELSE Null)

\* C31's case: a token was set and read back, time has passed its
\* expiresAt, and get has returned null, the token not having been cleared.
C31_Witness ==
  /\ GetReturned /\ auth.got = Null
  /\ auth.lastSet # Null /\ ~auth.cleared
  /\ auth.lastSet.expiresAt = 2 /\ auth.now = 2000

\* C31's other case: get has returned the token set, half a second before
\* it expires.
C31_WitnessCurrent ==
  /\ GetReturned /\ LastSetIsCurrent /\ auth.got = auth.lastSet.token
  /\ auth.lastSet.expiresAt = 2 /\ auth.now = 1500

(***************************************************************************)
(* Properties of the value selection (under SpecSelect).                   *)
(***************************************************************************)
\* random() has selected from the result ipfsResult.
Selected == pc = "done" /\ ipfsResult # Undefined

IsComparison == "match" \in DOMAIN ipfsResult
Disagreeing ==
  IsComparison /\ ~ipfsResult.match /\ ipfsResult.gateway # Null /\ ipfsResult.api # Null

\* The record random() is to select from: the plain record; of a comparison
\* the gateway record, or the api record when there is no gateway record or
\* when the two disagree and the api record has the greater sequence.
SelectedRecord ==
  IF ~IsComparison THEN ipfsResult
  ELSE IF ipfsResult.gateway = Null THEN ipfsResult.api
  ELSE IF Disagreeing /\ ipfsResult.api.sequence > ipfsResult.gateway.sequence THEN ipfsResult.api
  ELSE ipfsResult.gateway

\* The index the caller asked for, 0 when none was given.
RequestedIndex == IF "index" \in DOMAIN call.request THEN call.request.index.n ELSE 0

\* The decimal text of the element of A that index i selects, wrapping around.
WrappedText(A, i) == toString(A[(i % Len(A)) + 1])

C4_GreaterSequenceWins ==
  (Selected /\ Disagreeing) =>
     LET gateway == ipfsResult.gateway
         api == ipfsResult.api
         source == IF gateway.sequence > api.sequence THEN gateway
                   ELSE IF api.sequence > gateway.sequence THEN api
                   ELSE gateway
     IN IF source.ctrng = <<>>
          THEN outcome.status = "rejected"
          ELSE /\ outcome.status = "resolved"
               /\ outcome.value.timestamp = source.timestamp
               /\ outcome.value.data = WrappedText(source.ctrng, RequestedIndex)

\* C4's case: the api record has the greater sequence and other content than
\* the gateway record, and its timestamp is the one returned.
C4_Witness ==
  /\ Selected /\ Disagreeing
  /\ ipfsResult.api.sequence > ipfsResult.gateway.sequence
  /\ ipfsResult.api.timestamp # ipfsResult.gateway.timestamp
  /\ ipfsResult.gateway.ctrng # <<>>
  /\ outcome.status = "resolved"
  /\ outcome.value.timestamp = ipfsResult.api.timestamp

\* C5: if the selected record's ctrng array is empty, random() rejects with
\* an INVALID_RESPONSE error: it neither succeeds nor fails with an error
\* that is not an SDK error.
C5_EmptyArrayIsInvalidResponse ==
  (Selected /\ SelectedRecord.ctrng = <<>>) =>
     /\ outcome.status = "rejected"
     /\ outcome.error.name = "OrbitportSDKError"
     /\ outcome.error.code = "INVALID_RESPONSE"

\* C5's case: the authoritative record of a comparison has an empty array
\* while the other record has values, and random() has rejected.
C5_Witness ==
  /\ Selected /\ Disagreeing
  /\ SelectedRecord = ipfsResult.api
  /\ ipfsResult.api.ctrng = <<>>
  /\ ipfsResult.gateway.ctrng # <<>>
  /\ outcome.status = "rejected"

\* The comparison matched and holds both records.
Agreeing ==
  IsComparison /\ ipfsResult.match /\ ipfsResult.gateway # Null /\ ipfsResult.api # Null

\* The position, in the selected record's array, of the value returned.
SelectedPosition == (RequestedIndex % Len(SelectedRecord.ctrng)) + 1

\* C38: whenever random() returns a value taken from a comparison with
\* match = true and both records present, the api record's ctrng array holds
\* the same value at the selected index as the gateway record's.
C38_MatchedSourcesAgreeOnTheValue ==
  (Selected /\ Agreeing /\ outcome.status = "resolved") =>
     /\ SelectedPosition \in DOMAIN ipfsResult.api.ctrng
     /\ ipfsResult.api.ctrng[SelectedPosition] = ipfsResult.gateway.ctrng[SelectedPosition]

\* The two records have the same sequence and previous and arrays of the
\* same length, the comparison matched, and the value returned is the
\* gateway's while the api record holds another value at that index.
C38_Witness ==
  /\ Selected /\ Agreeing /\ outcome.status = "resolved"
  /\ Len(ipfsResult.api.ctrng) = Len(ipfsResult.gateway.ctrng)
  /\ outcome.value.data = toString(ipfsResult.gateway.ctrng[SelectedPosition])
  /\ ipfsResult.api.ctrng[SelectedPosition] # ipfsResult.gateway.ctrng[SelectedPosition]

====
